---------------------------- MODULE Spec2Model ----------------------------
(***************************************************************************)
(* A model of the ovs-driver control plane: the switch-database client     *)
(* with its change-feed cache (drivers/ovsdbdriver.go), the port lifecycle *)
(* built on it, and the network/endpoint registry (drivers/ovsdriver.go    *)
(* with the endpoint operations that persist to the local store).          *)
(*                                                                         *)
(* Names are tuples of tokens: the interface name "port" ++ t is           *)
(* <<"port", t>>, the empty name is <<>>.  A libovsdb.UUID is the tuple    *)
(* held in its GoUUID field; libovsdb sends it as ["uuid", g] when g has   *)
(* the shape of a UUID and as ["named-uuid", g] otherwise.                 *)
(***************************************************************************)
EXTENDS Integers, Sequences, FiniteSets, TLC

VARIABLES
    db,        \* the switch database: table -> (row uuid -> row)
    nextUUID,  \* number of row uuids the database has handed out
    cache,     \* OvsdbDriver.cache: table -> (row uuid -> row)
    pending,   \* change notifications sent by the database, not yet delivered
    crashed,   \* the process has died of a panic
    networks,  \* Driver.networks: network id -> network
    veths,     \* the virtual interface pairs that exist, by container-side name
    linkUp,    \* switch-side interfaces set administratively up
    store,     \* the durable store: endpoint id -> persisted value
    ret,       \* the last call of an exposed operation and what it returned
    events,    \* the effects of the last call, in the order the code made them
    pc,        \* for every worker, the call it serves and its position in it
    held       \* for every worker, the locks it holds

vars == <<db, nextUUID, cache, pending, crashed, networks, veths, linkUp, store, ret, events,
          pc, held>>

-----------------------------------------------------------------------------
(* Bounds of the model *)

\* row uuids the database may hand out in one run
MaxUUID == 2
\* notifications that may wait for delivery
MaxPending == 2
\* requests served at the same time
NumWorkers == 2

-----------------------------------------------------------------------------
(* Constants of drivers/ovsdbdriver.go *)

ovsBridgeName == <<"ovs-br0">>
portTable == "Port"
intfTable == "Interface"
bridgeTable == "Bridge"
insertOp == "insert"
mutateOp == "mutate"
deleteOp == "delete"
internalPort == "internal"

Tables == {intfTable, portTable, bridgeTable}

\* error values: Go's nil error, and an error with a message and a detail
Nil == [error |-> "", details |-> ""]
Err(e, d) == [error |-> e, details |-> d]

\* the row uuids of the database, in the order it hands them out
UUIDTok == <<"1", "2", "3", "4", "5", "6">>
UUIDOf(k) == <<"uuid", UUIDTok[k]>>
BridgeUUID == <<"uuid", "br">>
\* libovsdb's validateUUID: whether a GoUUID is sent as a uuid or as a named-uuid
IsUUID(g) == Len(g) = 2 /\ g[1] = "uuid"

EmptyRow == <<>>
NoRows == [u \in {} |-> EmptyRow]

-----------------------------------------------------------------------------
(* The switch database: one transaction, applied atomically (RFC 7047) *)

\* the rows of table t whose name column equals n
RowsNamed(tbl, n) == {u \in DOMAIN tbl : tbl[u].name = n}

\* a function without the keys in ks
Without(f, ks) == [k \in (DOMAIN f) \ ks |-> f[k]]
\* a function with key k set to v
With(f, k, v) == [x \in (DOMAIN f) \cup {k} |-> IF x = k THEN v ELSE f[x]]

\* a reference as the server reads it: a uuid, a declared named-uuid, or an error
RefKnown(g, named) == IsUUID(g) \/ g \in DOMAIN named
RefOf(g, named) == IF IsUUID(g) THEN g ELSE named[g]

\* one operation on the transaction's working state
\*   st = [db, next, named, failed]
ApplyOp(st, op) ==
    IF op.op = insertOp THEN
        LET u == UUIDOf(st.next + 1)
            refsOk == ("interfaces" \notin DOMAIN op.row) \/ RefKnown(op.row.interfaces, st.named)
            row == IF "interfaces" \in DOMAIN op.row
                   THEN [op.row EXCEPT !.interfaces = RefOf(op.row.interfaces, st.named)]
                   ELSE op.row
        IN  IF ~refsOk THEN [st EXCEPT !.failed = TRUE]
            ELSE [st EXCEPT !.db[op.table] = With(st.db[op.table], u, row),
                            !.next = st.next + 1,
                            !.named = With(st.named, op.uuidName, u)]
    ELSE IF op.op = deleteOp THEN
        [st EXCEPT !.db[op.table] = Without(st.db[op.table], RowsNamed(st.db[op.table], op.where))]
    ELSE \* mutate the ports column of the matching Bridge rows
        IF \E g \in op.value : ~RefKnown(g, st.named) THEN [st EXCEPT !.failed = TRUE]
        ELSE LET refs == {RefOf(g, st.named) : g \in op.value}
                 hit == RowsNamed(st.db[op.table], op.where)
             IN  [st EXCEPT !.db[op.table] =
                     [u \in DOMAIN st.db[op.table] |->
                        IF u \in hit
                        THEN [st.db[op.table][u] EXCEPT !.ports =
                                 IF op.mutator = insertOp THEN @ \cup refs ELSE @ \ refs]
                        ELSE st.db[op.table][u]]]

\* the working state after the first k operations; it stops at the first failure
RECURSIVE ApplyOps(_, _, _)
ApplyOps(st, ops, k) ==
    IF k = 0 THEN [st EXCEPT !.at = 0]
    ELSE LET step(prev) == IF prev.failed THEN prev
                           ELSE [ApplyOp(prev, ops[k]) EXCEPT !.at = k]
         IN  step(ApplyOps(st, ops, k - 1))

\* what the database checks when it commits: strong references and unique names
Consistent(d) ==
    /\ \A b \in DOMAIN d[bridgeTable] : d[bridgeTable][b].ports \subseteq DOMAIN d[portTable]
    /\ \A p \in DOMAIN d[portTable] : d[portTable][p].interfaces \in DOMAIN d[intfTable]
    /\ \A t \in {intfTable, portTable} :
          \A u, v \in DOMAIN d[t] : d[t][u].name = d[t][v].name => u = v

\* the change notification of a committed transaction: per table, the rows that
\* changed, each with its new value (the empty row for a deleted row)
UpdateOf(old, new) ==
    LET changed(t) == {u \in (DOMAIN old[t]) \cup (DOMAIN new[t]) :
                          \/ u \notin DOMAIN old[t]
                          \/ u \notin DOMAIN new[t]
                          \/ old[t][u] # new[t][u]}
        touched == {t \in Tables : changed(t) # {}}
    IN  [t \in touched |-> [u \in changed(t) |->
            [new |-> IF u \in DOMAIN new[t] THEN new[t][u] ELSE EmptyRow]]]

OkReply == Nil
\* the replies of a transaction that failed in operation k (1..n), or at commit (n+1):
\* results for the operations before it, then the error
FailReply(k, e, d) == [i \in 1..k |-> IF i = k THEN Err(e, d) ELSE OkReply]

\* what the database and the connection may do with a transaction
\*   ok:        the database decides, the replies arrive
\*   reject:    the database refuses operation `at` (resources, i/o, ...)
\*   lost:      the call fails before the database sees the request
\*   replylost: the database decides, the call fails before the replies arrive
TxOutcomes(n) ==
    {[kind |-> k, at |-> 0] : k \in {"ok", "lost", "replylost"}}
    \cup {[kind |-> "reject", at |-> i] : i \in 1..(n + 1)}

\* the verdict of the database on the working state `run` of n operations
Decide(d, next, n, run) ==
    IF run.failed
    THEN [db |-> d, next |-> next, applied |-> FALSE,
          reply |-> FailReply(run.at, "syntax error", "unknown named-uuid")]
    ELSE IF ~Consistent(run.db)
    THEN [db |-> d, next |-> next, applied |-> FALSE,
          reply |-> FailReply(n + 1, "constraint violation", "commit")]
    ELSE [db |-> run.db, next |-> run.next, applied |-> TRUE,
          reply |-> [i \in 1..n |-> OkReply]]

\* the database executes the operation list ops on d
Execute(d, next, ops) ==
    Decide(d, next, Len(ops),
           ApplyOps([db |-> d, next |-> next, named |-> [g \in {} |-> <<>>],
                     failed |-> FALSE, at |-> 0], ops, Len(ops)))

\* the reply is lost on the way back
DropReply(t) == [t EXCEPT !.reply = <<>>]

\* libovsdb Transact: [db, next, reply, applied]
Transact(d, next, ops, outcome) ==
    CASE outcome.kind = "ok" -> Execute(d, next, ops)
      [] outcome.kind = "reject" ->
            [db |-> d, next |-> next, applied |-> FALSE,
             reply |-> FailReply(outcome.at, "resources exhausted", "rejected")]
      [] outcome.kind = "lost" -> [db |-> d, next |-> next, applied |-> FALSE, reply |-> <<>>]
      [] OTHER -> DropReply(Execute(d, next, ops))

-----------------------------------------------------------------------------
(* OvsdbDriver: drivers/ovsdbdriver.go *)

\* the rows AddPort inserts
IntfRow(intfName, burst, bandwidth) ==
    LET base == [name |-> intfName, type |-> internalPort]
        r1 == IF bandwidth # 0
              THEN [f \in (DOMAIN base) \cup {"ingress_policing_rate"} |->
                       IF f = "ingress_policing_rate" THEN bandwidth ELSE base[f]]
              ELSE base
    IN  IF burst # 0
        THEN [f \in (DOMAIN r1) \cup {"ingress_policing_burst"} |->
                 IF f = "ingress_policing_burst" THEN burst ELSE r1[f]]
        ELSE r1

\* mutant: the port is an access port whatever the tag
PortRowAccess(intfName, tag) ==
    [name |-> intfName, interfaces |-> <<"intf">>, vlan_mode |-> "access", tag |-> tag]

PortRow(intfName, tag) ==
    IF tag # 0
    THEN [name |-> intfName, interfaces |-> <<"intf">>, vlan_mode |-> "access", tag |-> tag]
    ELSE [name |-> intfName, interfaces |-> <<"intf">>, vlan_mode |-> "trunk"]

BridgeMutation(mutator, refs, brName) ==
    [op |-> mutateOp, table |-> bridgeTable, column |-> "ports",
     mutator |-> mutator, value |-> refs, where |-> brName]

\* the operation list of AddPort
AddPortOps(brName, intfName, tag, burst, bandwidth) ==
    << [op |-> insertOp, table |-> intfTable,
        row |-> IntfRow(intfName, burst, bandwidth), uuidName |-> <<"intf">>],
       [op |-> insertOp, table |-> portTable,
        row |-> PortRow(intfName, tag), uuidName |-> <<"port">>],
       BridgeMutation(insertOp, {<<"port">>}, brName) >>

\* the identifiers DelPort may end with after scanning d.cache["Port"]: a cached
\* row of that name (the map is ranged over in no fixed order), else the name
DelPortUUIDs(c, intfName) ==
    LET tbl == IF portTable \in DOMAIN c THEN c[portTable] ELSE NoRows
        found == RowsNamed(tbl, intfName)
    IN  IF found # {} THEN found ELSE {intfName}

\* whether the scan of DelPort finds a cached Port row of that name
CacheHit(c, intfName) ==
    portTable \in DOMAIN c /\ RowsNamed(c[portTable], intfName) # {}

\* mutant: the rows of the port and of its interface are not deleted
DelPortOpsBridgeOnly(brName, intfName, portUUID) ==
    << BridgeMutation(deleteOp, {portUUID}, brName) >>

\* the operation list of DelPort
DelPortOps(brName, intfName, portUUID) ==
    << [op |-> deleteOp, table |-> intfTable, where |-> intfName],
       [op |-> deleteOp, table |-> portTable, where |-> intfName],
       BridgeMutation(deleteOp, {portUUID}, brName) >>

\* the loop of doOperations over the replies
RECURSIVE doOperationsFrom(_, _, _)
doOperationsFrom(reply, nops, i) ==
    IF i > Len(reply) THEN Nil
    ELSE IF reply[i].error # "" /\ (i - 1) < nops THEN Err(reply[i].error, reply[i].details)
    ELSE IF reply[i].error # "" THEN Err(reply[i].error, reply[i].details)
    ELSE doOperationsFrom(reply, nops, i + 1)

\* mutant: replies beyond the operation count are not looked at
RECURSIVE doOperationsInRange(_, _, _)
doOperationsInRange(reply, nops, i) ==
    IF i > Len(reply) THEN Nil
    ELSE IF reply[i].error # "" /\ (i - 1) < nops THEN Err(reply[i].error, reply[i].details)
    ELSE doOperationsInRange(reply, nops, i + 1)

doOperationsMutant(reply, nops) == doOperationsInRange(reply, nops, 1)

\* doOperations: the error of Transact is dropped, a short reply is only logged
doOperations(reply, nops) == doOperationsFrom(reply, nops, 1)

\* populateCache
\* mutant: a row whose new value is empty is left in the cache
populateCacheKeeps(c, updates) ==
    [t \in (DOMAIN c) \cup (DOMAIN updates) |->
        LET old == IF t \in DOMAIN c THEN c[t] ELSE NoRows
        IN  IF t \notin DOMAIN updates THEN old
            ELSE LET rows == updates[t]
                     set == {u \in DOMAIN rows : rows[u].new # EmptyRow}
                 IN  [u \in (DOMAIN old) \cup set |->
                        IF u \in set THEN rows[u].new ELSE old[u]]]

populateCache(c, updates) ==
    [t \in (DOMAIN c) \cup (DOMAIN updates) |->
        LET old == IF t \in DOMAIN c THEN c[t] ELSE NoRows
        IN  IF t \notin DOMAIN updates THEN old
            ELSE LET rows == updates[t]
                     set == {u \in DOMAIN rows : rows[u].new # EmptyRow}
                     del == {u \in DOMAIN rows : rows[u].new = EmptyRow}
                 IN  [u \in ((DOMAIN old) \ del) \cup set |->
                        IF u \in set THEN rows[u].new ELSE old[u]]]


\* what the calls of SetInterfaceIP and SetInterfaceMac after the transaction of AddPort
\* may do:
\*   ip  "nolink": LinkByName or ParseAddr fails; "addrfail": AddrAdd fails; "ok"
\*   up  whether LinkSetUp, whose error is dropped, brought the link up
\*   mac "fail": SetInterfaceMac fails; "ok"
LinkOutcomes ==
    {l \in [ip : {"ok", "nolink", "addrfail"}, up : BOOLEAN, mac : {"ok", "fail"}] :
        /\ l.ip = "nolink" => ~l.up
        /\ l.ip # "ok" => l.mac = "ok"}

\* the event a transaction leaves in `events`
TxEvent(call, intfName, hit, ops, t, err) ==
    [ev |-> "tx", call |-> call, name |-> intfName, hit |-> hit, ops |-> ops,
     reply |-> t.reply, applied |-> t.applied, err |-> err]

\* SetInterfaceIP: LinkByName, ParseAddr, LinkSetUp (its error dropped), AddrAdd
SetInterfaceIP(link) ==
    IF link.ip = "nolink" THEN Err("SetInterfaceIP", "Link not found")
    ELSE IF link.ip = "addrfail" THEN Err("SetInterfaceIP", "AddrAdd")
    ELSE Nil
\* SetInterfaceMac: LinkByName, ParseMAC, LinkSetHardwareAddr
SetInterfaceMac(link) ==
    IF link.mac = "fail" THEN Err("SetInterfaceMac", "invalid MAC address") ELSE Nil

\* AddPort after its transaction t: SetInterfaceIP, which brings the link up before
\* it adds the address, then SetInterfaceMac
AddPortDone(intfName, ops, t, err, link) ==
    [db |-> t.db, next |-> t.next,
     tx |-> TxEvent("AddPort", intfName, FALSE, ops, t, err),
     err |-> IF err # Nil THEN err
             ELSE IF SetInterfaceIP(link) # Nil THEN SetInterfaceIP(link)
             ELSE SetInterfaceMac(link),
     up |-> IF err = Nil /\ link.up THEN {intfName} ELSE {}]

AddPortSent(intfName, ops, t, link) ==
    AddPortDone(intfName, ops, t, doOperations(t.reply, Len(ops)), link)

\* AddPort: [db, next, err, tx, up]
AddPort(d, next, addr, mac, intfName, tag, burst, bandwidth, outcome, link) ==
    AddPortSent(intfName, AddPortOps(ovsBridgeName, intfName, tag, burst, bandwidth),
                Transact(d, next, AddPortOps(ovsBridgeName, intfName, tag, burst, bandwidth), outcome),
                link)

\* the port type of CreateEndpoint when it makes a veth pair
vethPort == ""

\* the operation list of AddPort(name, type, vlanTag, burst, bandwidth)
AddPortTypedOps(brName, intfName, intfType, tag, burst, bandwidth) ==
    [AddPortOps(brName, intfName, tag, burst, bandwidth) EXCEPT ![1].row.type = intfType]

\* AddPort(name, type, vlanTag, burst, bandwidth), which CreateEndpoint calls: the
\* three operations in one transaction and nothing after it: [db, next, err, tx]
AddPortTyped(d, next, intfName, intfType, tag, burst, bandwidth, outcome) ==
    LET ops == AddPortTypedOps(ovsBridgeName, intfName, intfType, tag, burst, bandwidth)
        t == Transact(d, next, ops, outcome)
    IN  [db |-> t.db, next |-> t.next, err |-> doOperations(t.reply, Len(ops)),
         tx |-> TxEvent("AddPort", intfName, FALSE, ops, t, doOperations(t.reply, Len(ops)))]

DelPortSent(c, intfName, ops, t) ==
    [db |-> t.db, next |-> t.next, err |-> doOperations(t.reply, Len(ops)),
     tx |-> TxEvent("DelPort", intfName, CacheHit(c, intfName), ops, t,
                    doOperations(t.reply, Len(ops)))]

\* DelPort, with the identifier its scan of the cache ended with: [db, next, err, tx]
DelPort(d, next, c, intfName, portUUID, outcome) ==
    DelPortSent(c, intfName, DelPortOps(ovsBridgeName, intfName, portUUID),
                Transact(d, next, DelPortOps(ovsBridgeName, intfName, portUUID), outcome))

\* the notifications the database sends for the move from old to new
Notify(q, upd) == IF upd = <<>> THEN q ELSE Append(q, upd)
Notified(q, old, new) == Notify(q, UpdateOf(old, new))

-----------------------------------------------------------------------------
(* Addresses: an address is a number of AddrBits bits, a CIDR string "a/m" the
   record [ip |-> a, len |-> m], an *net.IPNet the record [ip, mask] *)

\* bits of an address
AddrBits == 4

RECURSIVE Pow2(_)
Pow2(n) == IF n = 0 THEN 1 ELSE 2 * Pow2(n - 1)

CIDR(a, m) == [ip |-> a, len |-> m]
\* the empty string, which is no CIDR
NoCIDR == [ip |-> -1, len |-> -1]
\* the strings that are no CIDR for want of a part: "a/" is CIDR(a, -1), "/m" is
\* CIDR(-1, m), and "a", without a slash, is CIDR(a, NoSlash)
NoSlash == -2
\* a nil *net.IPNet
NilNet == [ip |-> -1, mask |-> -1]

\* IP.Mask: the address with the host bits cleared
MaskIP(a, m) == a - (a % Pow2(AddrBits - m))

\* the *net.IPNet net.ParseCIDR returns: the network of the address, nil on an error
ParseCIDR(s) ==
    IF s.len \in 0..AddrBits /\ s.ip \in 0..(Pow2(AddrBits) - 1)
    THEN [ip |-> MaskIP(s.ip, s.len), mask |-> s.len]
    ELSE NilNet

\* IPNet.Contains
Contains(n, a) == MaskIP(a, n.mask) = n.ip

\* IPNet.String
NetString(n) == CIDR(n.ip, n.mask)

\* getSubnetforIP: the index of the first subnet of the same mask length that
\* contains the address, 0 for nil
RECURSIVE getSubnetFrom(_, _, _)
getSubnetFrom(subnets, ip, i) ==
    IF i > Len(subnets) THEN 0
    ELSE IF subnets[i].subnetIP.mask # ip.mask THEN getSubnetFrom(subnets, ip, i + 1)
    ELSE IF Contains(subnets[i].subnetIP, ip.ip) THEN i
    ELSE getSubnetFrom(subnets, ip, i + 1)

\* mutant: the mask lengths are not compared
RECURSIVE getSubnetFromAnyMask(_, _, _)
getSubnetFromAnyMask(subnets, ip, i) ==
    IF i > Len(subnets) THEN 0
    ELSE IF Contains(subnets[i].subnetIP, ip.ip) THEN i
    ELSE getSubnetFromAnyMask(subnets, ip, i + 1)

getSubnetforIPAnyMask(subnets, ip) == getSubnetFromAnyMask(subnets, ip, 1)

getSubnetforIP(subnets, ip) == getSubnetFrom(subnets, ip, 1)

\* getGatewayIP: the two parts of the gateway of the first pool, split at the slash:
\* [ip, len, err, panic]. A gateway without a slash has no second part, and the
\* look at parts[1] panics.
getGatewayIP(ipv4) ==
    LET gatewayIP == IF Len(ipv4) > 0 /\ ~ipv4[1].nil THEN ipv4[1].gateway ELSE NoCIDR
        none == [ip |-> -1, len |-> -1, err |-> Nil, panic |-> FALSE]
    IN  IF gatewayIP = NoCIDR THEN [none EXCEPT !.err = Err("No gateway IP found", "")]
        ELSE IF gatewayIP.ip # -1 /\ gatewayIP.len = NoSlash THEN [none EXCEPT !.panic = TRUE]
        ELSE IF gatewayIP.ip = -1 \/ gatewayIP.len = -1
        THEN [none EXCEPT !.err = Err("Cannot split gateway IP address", "")]
        ELSE [none EXCEPT !.ip = gatewayIP.ip, !.len = gatewayIP.len]

\* strconv.Atoi on the option strings
Atoi(s) == CASE s = "10" -> 10 [] s = "100" -> 100 [] s = "1000" -> 1000 [] OTHER -> 0

getVlan(opts) == IF opts.generic THEN Atoi(opts.vlan) ELSE 0
getBandwidth(opts) == IF opts.generic THEN Atoi(opts.bandwidth) ELSE 0
getBrust(opts) == IF opts.generic THEN Atoi(opts.brust) ELSE 0

\* getOvsPortName: the first "port" of the name replaced by "vport"
getOvsPortName(intfName) ==
    IF \E i \in DOMAIN intfName : intfName[i] = "port"
    THEN LET k == CHOOSE i \in DOMAIN intfName :
                    intfName[i] = "port" /\ \A j \in 1..(i - 1) : intfName[j] # "port"
         IN  [intfName EXCEPT ![k] = "vport"]
    ELSE intfName

intfPrefix == "port"
containerEthName == "eth"

\* mutant: the first byte marks a multicast address
genMACMulticast(tail) == <<3, 66>> \o tail
\* genMAC: 0x02, 0x42, then four bytes: random ones, or those of the IPv4 address
genMAC(tail) == <<2, 66>> \o tail
\* a nil net.HardwareAddr
NilMAC == <<>>

\* IP.To4: the four bytes of an IPv4 address in its 4-byte or its 16-byte form, nil
\* (the empty sequence) for any other address
To4(ip) ==
    IF Len(ip) = 4 THEN ip
    ELSE IF /\ Len(ip) = 16
            /\ \A i \in 1..10 : ip[i] = 0
            /\ ip[11] = 255 /\ ip[12] = 255
    THEN <<ip[13], ip[14], ip[15], ip[16]>>
    ELSE <<>>
\* copy(hw[2:], src) into the four zero bytes make left there
CopyTail(src) == [i \in 1..4 |-> IF i <= Len(src) THEN src[i] ELSE 0]

\* GenerateRandomMAC, with the bytes rand.Read delivers
GenerateRandomMAC(rnd) == genMAC(rnd)
\* mutant: only three bytes of the address are copied
GenerateMACFromIPShort(ip) == genMAC([CopyTail(To4(ip)) EXCEPT ![4] = 0])
\* GenerateMACFromIP of an address that is not nil
GenerateMACFromIP(ip) == genMAC(CopyTail(To4(ip)))
\* net.ParseMAC of the MAC strings of the model: "" is an error, the others parse
ParseMAC(s) == s.bytes
\* HardwareAddr.String
MACString(m) == [bytes |-> m]
NoMACString == [bytes |-> NilMAC]

-----------------------------------------------------------------------------
(* The registry: drivers/ovsdriver.go and the endpoint operations with the store.
   A *network and an *endpoint are pointers. The record of a network carries in
   `obj` the identity of the object and in `locked` whether its mutex is held for
   good; every handler that holds the pointer has the object as it is now. The
   record of an endpoint carries in `by` the worker whose CreateEndpoint made it,
   until that call has returned. *)

NoEndpoints == [e \in {} |-> <<>>]

\* the goroutines that serve requests, and the position of one that serves none
Workers == 1..NumWorkers
Idle == [call |-> "idle", at |-> 0]

\* no *network
NoNet == [id |-> "", obj |-> 0]
\* a fresh endpoint
NoEndpoint ==
    [id |-> "", nid |-> "", intfName |-> <<>>, addr |-> NilNet, mac |-> NilMAC,
     dbExists |-> FALSE, dbIndex |-> 0, by |-> 0]

\* the network objects the workers hold a pointer to
HeldNets ==
    {pc[v].n.obj : v \in {x \in Workers : pc[x] # Idle /\ "n" \in DOMAIN pc[x]}} \ {0}

\* the state a handler works on, with the events and the error it has so far, the
\* *network and the *endpoint it holds, and whether it has returned without an error
World ==
    [db |-> db, next |-> nextUUID, pending |-> pending, networks |-> networks,
     veths |-> veths, linkUp |-> linkUp, store |-> store, crashed |-> FALSE,
     ev |-> <<>>, err |-> Nil, res |-> <<>>, done |-> FALSE,
     n |-> NoNet, ep |-> NoEndpoint, settled |-> <<>>, answer |-> <<>>, objs |-> HeldNets]

Fail(w, msg) == [w EXCEPT !.err = Err(msg, "")]
Emit(w, e) == [w EXCEPT !.ev = Append(@, e)]
\* whether the handler has returned
Returned(w) == w.err # Nil \/ w.done

\* the world after a transaction r of AddPort or DelPort
AfterTx(w, r) ==
    [w EXCEPT !.db = r.db, !.next = r.next,
              !.pending = Notified(w.pending, w.db, r.db),
              !.ev = Append(@, r.tx)]
\* what the last transaction of the handler returned
LastErr(w) == w.ev[Len(w.ev)].err

\* the subnets of a network, one per pool / gateway pair, in their order
SubnetsOf(ipv4) ==
    [i \in 1..Len(ipv4) |-> [subnetIP |-> ParseCIDR(ipv4[i].pool),
                             gwIP |-> ParseCIDR(ipv4[i].gateway)]]

\* a handler that panics: net/http recovers, the request ends without an answer and
\* the process goes on; what the handler had locked stays locked
PanicIn(w, call, what) ==
    [Emit(w, [ev |-> "panic", call |-> call]) EXCEPT !.err = Err("panic", what)]

\* whether the loop over the pools meets a nil element, whose Pool it cannot read
NilPoolIn(ipv4) == \E i \in 1..Len(ipv4) : ipv4[i].nil

\* the identity of a new network object that is stored under id: one that no entry
\* of the registry besides and no worker holds
Fresh(w, id) ==
    LET used == w.objs \cup {w.networks[x].obj : x \in (DOMAIN w.networks) \ {id}}
    IN  CHOOSE k \in 1..(Cardinality(used) + 1) :
            k \notin used /\ \A j \in 1..(k - 1) : j \in used

\* CreateNetwork
CreateNetwork(w, id, ipV4Data, opts) ==
    IF id = "" THEN Fail(w, "invalid network id")
    ELSE IF Len(ipV4Data.items) = 0 THEN Fail(w, "ipv4 pool is empty")
    ELSE IF getGatewayIP(ipV4Data.items).panic
    THEN PanicIn(w, "CreateNetwork", "index out of range")
    ELSE IF getGatewayIP(ipV4Data.items).err # Nil
    THEN [w EXCEPT !.err = getGatewayIP(ipV4Data.items).err]
    ELSE IF NilPoolIn(ipV4Data.items)
    THEN PanicIn(w, "CreateNetwork", "nil pointer dereference")
    ELSE Emit([w EXCEPT !.networks = With(w.networks, id,
                  [id |-> id, obj |-> Fresh(w, id), locked |-> FALSE,
                   hasMap |-> TRUE, endpoints |-> NoEndpoints,
                   subnets |-> SubnetsOf(ipV4Data.items),
                   gateway |-> getGatewayIP(ipV4Data.items).ip,
                   vlan |-> getVlan(opts), brust |-> getBrust(opts),
                   bandwidth |-> getBandwidth(opts)])],
              [ev |-> "net_insert", nid |-> id])

\* AllocateNetwork: the endpoint map of the network is left nil
AllocateNetwork(w, id, ipV4Data, opts) ==
    IF id = "" THEN Fail(w, "invalid network id for ovs network")
    ELSE IF ipV4Data.nil THEN Fail(w, "empty ipv4 data passed during ovs network creation")
    ELSE IF NilPoolIn(ipV4Data.items)
    THEN PanicIn(w, "AllocateNetwork", "nil pointer dereference")
    ELSE Emit([w EXCEPT !.networks = With(w.networks, id,
                  [id |-> id, obj |-> Fresh(w, id), locked |-> FALSE,
                   hasMap |-> FALSE, endpoints |-> NoEndpoints,
                   subnets |-> SubnetsOf(ipV4Data.items),
                   gateway |-> -1, vlan |-> 0, brust |-> 0, bandwidth |-> 0]),
                         !.res = opts],
              [ev |-> "net_insert", nid |-> id])

\* netutils.DeleteVethPair: it fails when the pair is not there, and may fail anyway
DeleteVethPair(w, intfName, outcome) ==
    IF intfName \notin w.veths \/ outcome # "ok"
    THEN Fail(w, "delete veth pair failed")
    ELSE Emit([w EXCEPT !.veths = @ \ {intfName}], [ev |-> "veth_delete", name |-> intfName])

\* netutils.CreateVethPair
CreateVethPair(w, intfName, outcome) ==
    IF intfName \in w.veths \/ outcome # "ok"
    THEN Fail(w, "Error creating veth pairs")
    ELSE Emit([w EXCEPT !.veths = @ \cup {intfName}], [ev |-> "veth_create", name |-> intfName])

OkTx == [kind |-> "ok", at |-> 0]
\* the ways a transaction of the plugin ends: it is executed and answered, it never
\* reaches the database, or the database refuses it
PluginTx ==
    {o \in TxOutcomes(3) : o.kind \in {"ok", "lost"} \/ (o.kind = "reject" /\ o.at = 1)}

\* the ports the applied AddPort transactions among the events evs created
CreatedPorts(evs) ==
    {evs[i].name : i \in {j \in DOMAIN evs :
        evs[j].ev = "tx" /\ evs[j].call = "AddPort" /\ evs[j].applied}}

\* whether the network object the handler holds is the one the registry has
Attached(w) == w.n.id \in DOMAIN w.networks /\ w.networks[w.n.id].obj = w.n.obj
\* the network object the handler holds becomes m: in the registry too, when the
\* object is still there
WriteNet(w, m) ==
    [w EXCEPT !.n = m,
              !.networks = IF Attached(w) THEN [@ EXCEPT ![w.n.id] = m] ELSE @]

\* the removal of the network entry, with the endpoints its map still holds
RemoveNetwork(w, nid) ==
    Emit([w EXCEPT !.networks = Without(w.networks, {nid})],
         [ev |-> "net_remove", nid |-> nid, eps |-> DOMAIN w.networks[nid].endpoints,
          names |-> {w.networks[nid].endpoints[e].intfName :
                        e \in DOMAIN w.networks[nid].endpoints}])

\* DeleteNetwork up to d.Unlock(): the check of the id and the lookup
DeleteNetworkLookup(w, nid) ==
    IF nid = "" THEN Fail(w, "invalid network id")
    ELSE IF nid \notin DOMAIN w.networks THEN Fail(w, "could not find network")
    ELSE [w EXCEPT !.n = w.networks[nid]]

\* the body of the loop of DeleteNetwork for the endpoint ep, up to the scan of
\* DelPort: an endpoint without interface name is passed over
DeleteNetworkVeth(w, ep, outcome) ==
    IF ep.intfName = <<>> THEN w ELSE DeleteVethPair(w, ep.intfName, outcome)

\* the transaction of DelPort for the endpoint ep
DeleteNetworkPort(w, c, ep, u, outcome) ==
    AfterTx(w, DelPort(w.db, w.next, c, getOvsPortName(ep.intfName), u, outcome))

\* what the loop does with what DelPort returned
DeleteNetworkReply(w) ==
    IF LastErr(w) # Nil THEN Fail(w, "ovs could not delete port") ELSE w

\* delete(d.networks, nid), of whatever the registry holds under nid by now
DeleteNetworkRemove(w, nid) ==
    IF nid \in DOMAIN w.networks THEN RemoveNetwork(w, nid) ELSE w

\* FreeNetwork up to the first d.Unlock(): an unknown id is logged and reported as
\* success
FreeNetworkLookup(w, id) ==
    IF id = "" THEN Fail(w, "invalid network id passed while freeing ovs network")
    ELSE IF id \notin DOMAIN w.networks THEN [w EXCEPT !.done = TRUE]
    ELSE w

\* FreeNetwork from the second d.Lock() on
FreeNetworkRemove(w, id) ==
    IF id \in DOMAIN w.networks THEN RemoveNetwork(w, id) ELSE w

\* endpoint.MarshalJSON: the map of the keys it writes, `keys`, with their values;
\* the interface name, the address and the MAC are left out when empty
MarshalJSON(ep) ==
    [keys |-> {"id", "nid"} \cup (IF ep.intfName # <<>> THEN {"intfName"} ELSE {})
                  \cup (IF ep.addr # NilNet THEN {"addr"} ELSE {})
                  \cup (IF Len(ep.mac) # 0 THEN {"mac"} ELSE {}),
     id |-> ep.id, nid |-> ep.nid, intfName |-> ep.intfName,
     addr |-> IF ep.addr # NilNet THEN NetString(ep.addr) ELSE NoCIDR,
     mac |-> IF Len(ep.mac) # 0 THEN MACString(ep.mac) ELSE NoMACString]

\* mutant: the interface name is not read back
UnmarshalJSONNoName(v) ==
    [ep |-> [NoEndpoint EXCEPT !.id = v.id, !.nid = v.nid,
                               !.mac = IF "mac" \in v.keys THEN ParseMAC(v.mac) ELSE NilMAC,
                               !.addr = IF "addr" \in v.keys THEN ParseCIDR(v.addr) ELSE NilNet],
     err |-> Nil, panic |-> FALSE]

\* endpoint.UnmarshalJSON into a fresh endpoint: [ep, err, panic]. The type assertion
\* of a missing id or nid panics; a MAC or an address that does not parse ends the
\* decoding with an error, before the fields after it are set.
UnmarshalJSON(v) ==
    LET ids == [NoEndpoint EXCEPT !.id = v.id, !.nid = v.nid]
        mac == IF "mac" \in v.keys THEN ParseMAC(v.mac) ELSE NilMAC
        addr == IF "addr" \in v.keys THEN ParseCIDR(v.addr) ELSE NilNet
    IN  IF "id" \notin v.keys \/ "nid" \notin v.keys
        THEN [ep |-> NoEndpoint, err |-> Nil, panic |-> TRUE]
        ELSE IF "mac" \in v.keys /\ mac = NilMAC
        THEN [ep |-> ids, panic |-> FALSE,
              err |-> Err("failed to decode endpoint interface mac address after json unmarshal", "")]
        ELSE IF "addr" \in v.keys /\ addr = NilNet
        THEN [ep |-> [ids EXCEPT !.mac = mac], panic |-> FALSE,
              err |-> Err("failed to decode endpoint interface ipv4 address after json unmarshal", "")]
        ELSE [ep |-> [ids EXCEPT !.mac = mac, !.addr = addr,
                                 !.intfName = IF "intfName" \in v.keys THEN v.intfName ELSE <<>>],
              err |-> Nil, panic |-> FALSE]

\* datastore PutObjectAtomic: a new object is written only if the key is free, a
\* stored one only at its index; the store may fail
PutObjectAtomic(w, ep, outcome) ==
    IF outcome # "ok" THEN Fail(Emit(w, [ev |-> "store_put", eid |-> ep.id, ok |-> FALSE]), "store")
    ELSE IF (~ep.dbExists /\ ep.id \in DOMAIN w.store)
            \/ (ep.dbExists /\ (ep.id \notin DOMAIN w.store \/ w.store[ep.id].index # ep.dbIndex))
    THEN Fail(Emit(w, [ev |-> "store_put", eid |-> ep.id, ok |-> FALSE]), "key modified")
    ELSE Emit([w EXCEPT !.store = With(w.store, ep.id,
                    [index |-> ep.dbIndex + 1, value |-> MarshalJSON(ep)])],
              [ev |-> "store_put", eid |-> ep.id, ok |-> TRUE])

\* datastore DeleteObjectAtomic
DeleteObjectAtomic(w, ep, outcome) ==
    IF outcome # "ok" \/ ep.id \notin DOMAIN w.store \/ w.store[ep.id].index # ep.dbIndex
    THEN Fail(Emit(w, [ev |-> "store_delete", eid |-> ep.id, ok |-> FALSE]), "store")
    ELSE Emit([w EXCEPT !.store = Without(w.store, {ep.id})],
              [ev |-> "store_delete", eid |-> ep.id, ok |-> TRUE])

\* the endpoint as SetIndex leaves it after a write
Stored(ep) == [ep EXCEPT !.dbExists = TRUE, !.dbIndex = ep.dbIndex + 1]

\* the endpoint object of the handler becomes e, wherever a pointer to it is kept:
\* in the endpoint maps of the registry and in that of the network the handler holds
Settle(w, e) ==
    LET new == [e EXCEPT !.by = 0]
        in(n) == IF n = NoNet THEN n
                 ELSE [n EXCEPT !.endpoints =
                          [x \in DOMAIN n.endpoints |->
                              IF n.endpoints[x].by = w.ep.by THEN new ELSE n.endpoints[x]]]
    IN  [w EXCEPT !.networks = [x \in DOMAIN w.networks |-> in(w.networks[x])],
                  !.n = in(w.n), !.ep = new,
                  !.settled = [by |-> w.ep.by, ep |-> new]]

\* n.Lock(); n.endpoints[ep.id] = ep; n.Unlock(). On a nil map the assignment panics
\* and n stays locked.
InsertEndpoint(w, ep) ==
    IF ~w.n.hasMap
    THEN PanicIn(WriteNet(w, [w.n EXCEPT !.locked = TRUE]),
                 "CreateEndpoint", "assignment to entry in nil map")
    ELSE Emit(WriteNet(w, [w.n EXCEPT !.endpoints = With(@, ep.id, ep)]),
              [ev |-> "ep_insert", nid |-> w.n.id, eid |-> ep.id, name |-> ep.intfName,
               attached |-> Attached(w)])

\* n.Lock(); delete(n.endpoints, id); n.Unlock()
RemoveEndpoint(w, ep) ==
    Emit(WriteNet(w, [w.n EXCEPT !.endpoints = Without(@, {ep.id})]),
         [ev |-> "ep_remove", nid |-> w.n.id, eid |-> ep.id, name |-> ep.intfName,
          attached |-> Attached(w)])

\* mutant: the address is not looked up in the subnets of the network
CreateEndpointChecksNoSubnet(w, in, name) ==
    IF in.nid = "" THEN Fail(w, "invalid network id passed while create ovs endpoint")
    ELSE IF in.eid = "" THEN Fail(w, "invalid endpoint id passed while create ovs endpoint")
    ELSE IF in.intf.nil THEN Fail(w, "invalid interface passed while create ovs endpoint")
    ELSE IF in.nid \notin DOMAIN w.networks THEN Fail(w, "ovs network not found")
    ELSE IF name # "ok"
    THEN Fail(Emit(w, [ev |-> "iface_name", ok |-> FALSE]), "ovs generate interface name err")
    ELSE IF ParseCIDR(in.intf.address) = NilNet
    THEN Fail(w, "create endpoint was not passed interface IP address")
    ELSE w

\* mutant: an empty endpoint id is let through
CreateEndpointChecksNoEid(w, in, name) ==
    IF in.nid = "" THEN Fail(w, "invalid network id passed while create ovs endpoint")
    ELSE IF in.intf.nil THEN Fail(w, "invalid interface passed while create ovs endpoint")
    ELSE IF in.nid \notin DOMAIN w.networks THEN Fail(w, "ovs network not found")
    ELSE IF name # "ok"
    THEN Fail(Emit(w, [ev |-> "iface_name", ok |-> FALSE]), "ovs generate interface name err")
    ELSE IF ParseCIDR(in.intf.address) = NilNet
    THEN Fail(w, "create endpoint was not passed interface IP address")
    ELSE IF getSubnetforIP(w.networks[in.nid].subnets, ParseCIDR(in.intf.address)) = 0
    THEN Fail(w, "no matching subnet")
    ELSE w

\* CreateEndpoint up to the subnet check: what it rejects before it touches anything
CreateEndpointChecks(w, in, name) ==
    IF in.nid = "" THEN Fail(w, "invalid network id passed while create ovs endpoint")
    ELSE IF in.eid = "" THEN Fail(w, "invalid endpoint id passed while create ovs endpoint")
    ELSE IF in.intf.nil THEN Fail(w, "invalid interface passed while create ovs endpoint")
    ELSE IF in.nid \notin DOMAIN w.networks THEN Fail(w, "ovs network not found")
    ELSE IF name # "ok"
    THEN Fail(Emit(w, [ev |-> "iface_name", ok |-> FALSE]), "ovs generate interface name err")
    ELSE IF ParseCIDR(in.intf.address) = NilNet
    THEN Fail(w, "create endpoint was not passed interface IP address")
    ELSE IF getSubnetforIP(w.networks[in.nid].subnets, ParseCIDR(in.intf.address)) = 0
    THEN Fail(w, "no matching subnet")
    ELSE w

\* CreateEndpoint up to the veth pair: the checks with the lookup of the network, the
\* endpoint, the veth pair
CreateEndpointVeth(w, in, env) ==
    IF CreateEndpointChecks(w, in, env.name).err # Nil
    THEN CreateEndpointChecks(w, in, env.name)
    ELSE LET ep == [id |-> in.eid, nid |-> in.nid, intfName |-> <<intfPrefix, env.token>>,
                    addr |-> ParseCIDR(in.intf.address),
                    mac |-> IF ParseMAC(in.intf.mac) = NilMAC THEN genMAC(env.rand)
                            ELSE ParseMAC(in.intf.mac),
                    dbExists |-> FALSE, dbIndex |-> 0, by |-> env.by]
         IN  CreateVethPair([w EXCEPT !.n = w.networks[in.nid], !.ep = ep],
                            ep.intfName, env.veth)

\* the transaction of AddPort for the endpoint of the handler
CreateEndpointPort(w, outcome) ==
    AfterTx(w, AddPortTyped(w.db, w.next, getOvsPortName(w.ep.intfName), vethPort,
                            w.n.vlan, w.n.brust, w.n.bandwidth, outcome))

\* mutant: the endpoint is registered whatever AddPort returned
CreateEndpointInsertAnyway(w) == InsertEndpoint(w, w.ep)

\* CreateEndpoint from what AddPort returned to n.Unlock()
CreateEndpointInsert(w) ==
    IF LastErr(w) # Nil THEN Fail(w, "ovs create endpoint error")
    ELSE InsertEndpoint(w, w.ep)

\* mutant: a failed write to the store is not reported
CreateEndpointStoreQuiet(w, outcome) ==
    LET s == PutObjectAtomic(w, w.ep, outcome)
    IN  IF s.err # Nil
        THEN [Settle(s, w.ep) EXCEPT !.err = Nil, !.res = MACString(w.ep.mac)]
        ELSE [Settle(s, Stored(w.ep)) EXCEPT !.res = MACString(w.ep.mac)]

\* CreateEndpoint from writeEndpointToStore on
CreateEndpointStore(w, outcome) ==
    LET s == PutObjectAtomic(w, w.ep, outcome)
    IN  IF s.err # Nil
        THEN Fail(Settle(s, w.ep), "failed to update ovs endpoint to local store")
        ELSE [Settle(s, Stored(w.ep)) EXCEPT !.res = MACString(w.ep.mac)]

\* the checks DeleteEndpoint, Join and Leave start with
Lookup(w, nid, eid) ==
    IF nid = "" THEN Fail(w, "invalid network id")
    ELSE IF eid = "" THEN Fail(w, "invalid endpoint id")
    ELSE IF nid \notin DOMAIN w.networks THEN Fail(w, "network id not found")
    ELSE IF eid \notin DOMAIN w.networks[nid].endpoints THEN Fail(w, "endpoint id not found")
    ELSE [w EXCEPT !.n = w.networks[nid], !.ep = w.networks[nid].endpoints[eid]]

\* DeleteEndpoint up to the veth pair: the lookups, then deleteEndpoint, which
\* returns at once when the interface name is empty
DeleteEndpointVeth(w, nid, eid, outcome) ==
    IF Lookup(w, nid, eid).err # Nil THEN Lookup(w, nid, eid)
    ELSE IF Lookup(w, nid, eid).ep.intfName = <<>>
    THEN [Lookup(w, nid, eid) EXCEPT !.done = TRUE]
    ELSE DeleteVethPair(Lookup(w, nid, eid), Lookup(w, nid, eid).ep.intfName, outcome)

\* deleteEndpoint: the removal from the endpoint map
deleteEndpointRemove(w) == RemoveEndpoint(w, w.ep)

\* mutant: the failure to delete the record is returned
deleteEndpointFromStoreStrict(w, outcome) == DeleteObjectAtomic(w, w.ep, outcome)

\* deleteEndpoint from deleteEndpointFromStore on: its error is logged
deleteEndpointFromStore(w, outcome) ==
    [DeleteObjectAtomic(w, w.ep, outcome) EXCEPT !.err = Nil]

\* netutils.SetLinkUp
SetLinkUp(w, name, outcome) ==
    IF outcome # "ok" THEN Fail(w, "Error setting link up")
    ELSE Emit([w EXCEPT !.linkUp = @ \cup {name}], [ev |-> "link_up", name |-> name])

\* mutant: the address of the endpoint is not looked up in the subnets again
JoinEndpointNoSubnet(w, n, ep, outcome) ==
    IF ep.intfName = <<>> THEN Fail(w, "intfName empty")
    ELSE LET l == SetLinkUp(w, getOvsPortName(ep.intfName), outcome)
         IN  IF l.err # Nil THEN l
             ELSE [l EXCEPT !.res = [SrcName |-> ep.intfName, DstPrefix |-> containerEthName,
                                     Gateway |-> n.gateway]]

\* Join from the endpoint on
JoinEndpoint(w, n, ep, outcome) ==
    IF ep.intfName = <<>> THEN Fail(w, "intfName empty")
    ELSE IF getSubnetforIP(n.subnets, ep.addr) = 0 THEN Fail(w, "could not find subnet for endpoint")
    ELSE LET l == SetLinkUp(w, getOvsPortName(ep.intfName), outcome)
         IN  IF l.err # Nil THEN l
             ELSE [l EXCEPT !.res = [SrcName |-> ep.intfName, DstPrefix |-> containerEthName,
                                     Gateway |-> n.gateway]]

\* Join
Join(w, nid, eid, outcome) ==
    IF Lookup(w, nid, eid).err # Nil THEN Lookup(w, nid, eid)
    ELSE JoinEndpoint(w, w.networks[nid], w.networks[nid].endpoints[eid], outcome)

\* Leave up to the scan of DelPort: the lookups and the check of the interface name
LeaveLookup(w, nid, eid) ==
    IF Lookup(w, nid, eid).err # Nil THEN Lookup(w, nid, eid)
    ELSE IF Lookup(w, nid, eid).ep.intfName = <<>> THEN Fail(Lookup(w, nid, eid), "intfName empty")
    ELSE Lookup(w, nid, eid)

\* the transaction of DelPort for the endpoint of the handler
LeavePort(w, c, u, outcome) ==
    AfterTx(w, DelPort(w.db, w.next, c, getOvsPortName(w.ep.intfName), u, outcome))

\* Leave from what DelPort returned on
LeaveReply(w) ==
    IF LastErr(w) # Nil THEN Fail(w, "ovs delete endpoint failed") ELSE w

\* the two pools of the model and a pool without a gateway
Pool(p, g) == [nil |-> FALSE, pool |-> p, gateway |-> g]
Pool1 == Pool(CIDR(0, 2), CIDR(1, 2))
Pool2 == Pool(CIDR(8, 1), CIDR(9, 1))
PoolNoGw == Pool(CIDR(0, 2), NoCIDR)
\* a nil element of the list of pools
NilPool == [nil |-> TRUE, pool |-> NoCIDR, gateway |-> NoCIDR]
\* pools whose gateway does not split in two: "1/", "/2" and "1"
MalformedPools ==
    {Pool(CIDR(0, 2), CIDR(1, -1)), Pool(CIDR(0, 2), CIDR(-1, 2)),
     Pool(CIDR(0, 2), CIDR(1, NoSlash))}
NoOpts == [generic |-> FALSE, vlan |-> "", bandwidth |-> "", brust |-> ""]

\* the registry entry of a network the orchestration service resolves
LookupNetwork(w, nid) ==
    [id |-> nid, obj |-> Fresh(w, nid), locked |-> FALSE, hasMap |-> TRUE, endpoints |-> NoEndpoints,
     subnets |-> SubnetsOf(<<Pool1>>), gateway |-> getGatewayIP(<<Pool1>>).ip,
     vlan |-> getVlan(NoOpts), brust |-> getBrust(NoOpts), bandwidth |-> getBandwidth(NoOpts)]

\* the endpoint of a stored object: its value decoded, its index set
Restored(rec) ==
    [UnmarshalJSON(rec.value).ep EXCEPT !.dbExists = TRUE, !.dbIndex = rec.index]

\* restore of a persisted endpoint whose network is resolved
RestoreResolved(w, ep) ==
    Emit([w EXCEPT !.networks[ep.nid].endpoints = With(@, ep.id, ep)],
         [ev |-> "ep_insert", nid |-> ep.nid, eid |-> ep.id, name |-> ep.intfName,
          attached |-> TRUE])

\* restore of an orphan: its port, its veth pair and its record are deleted, and
\* the first failure ends the pass
RestoreOrphan(w, c, ep, env) ==
    LET r == DelPort(w.db, w.next, c, getOvsPortName(ep.intfName), env.u, env.tx)
    IN  IF r.err # Nil THEN Fail(AfterTx(w, r), "restore: could not delete port")
        ELSE LET v == DeleteVethPair(AfterTx(w, r), ep.intfName, env.veth)
             IN  IF v.err # Nil THEN v ELSE DeleteObjectAtomic(v, ep, env.store)

\* restore of one persisted endpoint
RestoreStep(w, c, ep, env) ==
    IF ep.nid \in DOMAIN w.networks THEN RestoreResolved(w, ep)
    ELSE IF env.resolve
    THEN RestoreResolved(
            Emit([w EXCEPT !.networks = With(w.networks, ep.nid, LookupNetwork(w, ep.nid))],
                 [ev |-> "net_insert", nid |-> ep.nid]), ep)
    ELSE RestoreOrphan(w, c, ep, env)

\* the restore pass over the persisted endpoints in the order they are listed
RECURSIVE RestoreLoop(_, _, _, _, _)
RestoreLoop(w, c, order, envs, i) ==
    IF i > Len(order) \/ w.err # Nil THEN w
    ELSE RestoreLoop(RestoreStep(w, c, Restored(w.store[order[i]]), envs[order[i]]),
                     c, order, envs, i + 1)

\* the positions of `order` whose stored value does not decode
Undecoded(w, order) ==
    {i \in 1..Len(order) : \/ UnmarshalJSON(w.store[order[i]].value).panic
                           \/ UnmarshalJSON(w.store[order[i]].value).err # Nil}

\* the restore pass: the listing of the store decodes every value before the first
\* endpoint is looked at, and a value that does not decode ends the pass
RestorePass(w, c, order, envs) ==
    IF Undecoded(w, order) = {} THEN RestoreLoop(w, c, order, envs, 1)
    ELSE LET i == CHOOSE k \in Undecoded(w, order) : \A j \in Undecoded(w, order) : k <= j
         IN  IF UnmarshalJSON(w.store[order[i]].value).panic
             THEN [PanicIn(w, "Restore", "interface conversion") EXCEPT !.crashed = TRUE]
             ELSE Fail(w, "failed to get endpoints from store")

-----------------------------------------------------------------------------
(* The state after NewOvsdbDriver: the database as the process finds it, the
   cache filled from the snapshot MonitorAll returned *)

PreIntf == <<"uuid", "i0">>
PrePort == <<"uuid", "p0">>
\* the port a previous run may have left on the bridge
PreName == <<"vport", "0">>

EmptyDB ==
    [t \in Tables |-> IF t = bridgeTable
                      THEN (BridgeUUID :> [name |-> ovsBridgeName, ports |-> {}])
                      ELSE NoRows]
PreDB ==
    [t \in Tables |->
        IF t = bridgeTable THEN (BridgeUUID :> [name |-> ovsBridgeName, ports |-> {PrePort}])
        ELSE IF t = portTable
             THEN (PrePort :> [name |-> PreName, interfaces |-> PreIntf, vlan_mode |-> "trunk"])
        ELSE (PreIntf :> [name |-> PreName, type |-> internalPort])]

NoTables == [t \in Tables |-> NoRows]
\* the reply of MonitorAll: every row of the database
Snapshot(d) == UpdateOf(NoTables, d)

NoCall == [op |-> "NewOvsdbDriver", err |-> Nil]

NoNetworks == [n \in {} |-> <<>>]
NoStore == [e \in {} |-> <<>>]

\* the veth pair and the record a previous run may have left for its endpoint
PreIntfName == <<intfPrefix, "0">>
PreStore ==
    ("e1" :> [index |-> 1,
              value |-> [keys |-> {"id", "nid", "intfName", "addr", "mac"},
                         id |-> "e1", nid |-> "n1", intfName |-> PreIntfName,
                         addr |-> CIDR(0, 2), mac |-> MACString(genMAC(<<0, 0, 0, 2>>))]])

Init ==
    /\ \E pre \in BOOLEAN :
          /\ db = IF pre THEN PreDB ELSE EmptyDB
          /\ veths = IF pre THEN {PreIntfName} ELSE {}
          /\ store \in IF pre THEN {PreStore} ELSE {NoStore, PreStore}
    /\ nextUUID = 0
    /\ cache = populateCache(<<>>, Snapshot(db))
    /\ pending = <<>>
    /\ crashed = FALSE
    /\ networks = NoNetworks
    /\ linkUp = {}
    /\ ret = NoCall
    /\ events = <<>>
    /\ pc = [w \in Workers |-> Idle]
    /\ held = [w \in Workers |-> {}]

\* the endpoints a previous run may have persisted: one in the first pool, one
\* whose address lies in no pool of its network, one without interface name and MAC
PersistedA ==
    [id |-> "e1", nid |-> "n1", intfName |-> PreIntfName, addr |-> ParseCIDR(CIDR(2, 2)),
     mac |-> genMAC(<<0, 0, 0, 2>>), dbExists |-> TRUE, dbIndex |-> 1, by |-> 0]
PersistedB ==
    [id |-> "e2", nid |-> "n1", intfName |-> <<intfPrefix, "3">>, addr |-> ParseCIDR(CIDR(6, 2)),
     mac |-> genMAC(<<0, 0, 0, 6>>), dbExists |-> TRUE, dbIndex |-> 1, by |-> 0]
PersistedC ==
    [id |-> "e2", nid |-> "n1", intfName |-> <<>>, addr |-> ParseCIDR(CIDR(2, 2)),
     mac |-> NilMAC, dbExists |-> TRUE, dbIndex |-> 2, by |-> 0]
PersistedSets ==
    {{}, {PersistedA}, {PersistedA, PersistedB}, {PersistedA, PersistedC}}

\* the store that holds the endpoints of S as writeEndpointToStore left them
StoreOf(S) ==
    [e \in {ep.id : ep \in S} |->
        LET ep == CHOOSE x \in S : x.id = e
        IN  [index |-> ep.dbIndex, value |-> MarshalJSON(ep)]]

\* the stores that hold a value MarshalJSON does not write, the record of another
\* version or a damaged one: the address "3/5", which is no address of AddrBits
\* bits; the MAC ""; no id
DamagedValues ==
    {[MarshalJSON(PersistedA) EXCEPT !.addr = CIDR(3, AddrBits + 1)],
     [MarshalJSON(PersistedA) EXCEPT !.mac = NoMACString],
     [MarshalJSON(PersistedA) EXCEPT !.keys = @ \ {"id"}, !.id = ""]}
DamagedStores == {("e1" :> [index |-> 1, value |-> v]) : v \in DamagedValues}

\* the interface names of the endpoints of S
NamesOf(S) == {ep.intfName : ep \in {x \in S : x.intfName # <<>>}}

\* the database with the ports of the interface names N on the bridge
PortUUIDOf(n) == IF n = PreIntfName THEN PrePort ELSE <<"uuid", "p3">>
IntfUUIDOf(n) == IF n = PreIntfName THEN PreIntf ELSE <<"uuid", "i3">>
DBOf(N) ==
    [t \in Tables |->
        IF t = bridgeTable
        THEN (BridgeUUID :> [name |-> ovsBridgeName, ports |-> {PortUUIDOf(n) : n \in N}])
        ELSE IF t = portTable
        THEN [u \in {PortUUIDOf(n) : n \in N} |->
                LET n == CHOOSE x \in N : PortUUIDOf(x) = u
                IN  [name |-> getOvsPortName(n), interfaces |-> IntfUUIDOf(n),
                     vlan_mode |-> "trunk"]]
        ELSE [u \in {IntfUUIDOf(n) : n \in N} |->
                LET n == CHOOSE x \in N : IntfUUIDOf(x) = u
                IN  [name |-> getOvsPortName(n), type |-> internalPort]]]

\* the state after a restart: the store a previous run left, with the ports and the
\* veth pairs of its endpoints lost, still there, or there with those of an endpoint
\* whose record is gone
InitRestart ==
    /\ \/ \E S \in PersistedSets :
             \E P \in {{}, NamesOf(S), NamesOf({PersistedA, PersistedB})} :
                 /\ store = StoreOf(S)
                 /\ db = DBOf(P)
                 /\ veths = P
       \/ /\ store \in DamagedStores
          /\ db = DBOf(NamesOf({PersistedA}))
          /\ veths = NamesOf({PersistedA})
    /\ nextUUID = 0
    /\ cache = populateCache(<<>>, Snapshot(db))
    /\ pending = <<>>
    /\ crashed = FALSE
    /\ networks = NoNetworks
    /\ linkUp = {}
    /\ ret = NoCall
    /\ events = <<>>
    /\ pc = [w \in Workers |-> Idle]
    /\ held = [w \in Workers |-> {}]

-----------------------------------------------------------------------------
(* The port lifecycle called directly, as drivers/ovsdbdriver_test.go does *)

TestPorts == {<<"vport", "0">>, <<"port", "1">>}
\* the vlan tag, burst and bandwidth of a port: each zero or not
PortParams ==
    {[tag |-> 0, burst |-> 0, bandwidth |-> 0],
     [tag |-> 10, burst |-> 100, bandwidth |-> 1000],
     [tag |-> 0, burst |-> 100, bandwidth |-> 0],
     [tag |-> 10, burst |-> 0, bandwidth |-> 1000]}

CanTransact == ~crashed /\ Len(pending) < MaxPending

\* the goroutine whose call is followed step by step: that of the test, which calls
\* AddPort and DelPort one after the other, and where it is in a call
Caller == 1
InCall(w, call, at) == pc[w] # Idle /\ pc[w].call = call /\ pc[w].at = at

\* AddPort up to the reply of Transact: the database has decided, the caller has not
\* returned
CallAddPort ==
    \E w \in {Caller}, name \in TestPorts, p \in PortParams, o \in TxOutcomes(3) :
        /\ CanTransact /\ pc[w] = Idle
        /\ nextUUID + 2 <= MaxUUID
        /\ \E t \in {Transact(db, nextUUID,
                               AddPortOps(ovsBridgeName, name, p.tag, p.burst, p.bandwidth), o)} :
               /\ db' = t.db
               /\ nextUUID' = t.next
               /\ pending' = Notified(pending, db, t.db)
               /\ pc' = [pc EXCEPT ![w] = [call |-> "AddPort", at |-> 1, name |-> name,
                                          params |-> p, reply |-> t.reply,
                                          applied |-> t.applied]]
        /\ UNCHANGED <<held, cache, crashed, networks, veths, linkUp, store, ret, events>>

\* AddPort from the reply on: doOperations, SetInterfaceIP, SetInterfaceMac, return
ReturnAddPort ==
    \E w \in {Caller}, l \in LinkOutcomes :
        /\ ~crashed /\ InCall(w, "AddPort", 1)
        /\ \E r \in {AddPortSent(pc[w].name,
                                 AddPortOps(ovsBridgeName, pc[w].name, pc[w].params.tag,
                                            pc[w].params.burst, pc[w].params.bandwidth),
                                 [db |-> db, next |-> nextUUID, reply |-> pc[w].reply,
                                  applied |-> pc[w].applied], l)} :
               /\ linkUp' = linkUp \cup r.up
               /\ ret' = [op |-> "AddPort", name |-> pc[w].name, params |-> pc[w].params,
                          err |-> r.err]
               /\ events' = <<r.tx>>
        /\ pc' = [pc EXCEPT ![w] = Idle]
        /\ UNCHANGED <<held, db, nextUUID, cache, pending, crashed, networks, veths, store>>

\* DelPort up to RUnlock: the scan of the cache for the uuid of the port
CallDelPort ==
    \E w \in {Caller}, name \in TestPorts :
      \E u \in DelPortUUIDs(cache, name) :
        /\ ~crashed /\ pc[w] = Idle
        /\ pc' = [pc EXCEPT ![w] = [call |-> "DelPort", at |-> 1, name |-> name, u |-> u,
                                   hit |-> CacheHit(cache, name)]]
        /\ UNCHANGED <<held, db, nextUUID, cache, pending, crashed, networks, veths, linkUp,
                       store, ret, events>>

\* DelPort from the scan to the reply of Transact
SendDelPort ==
    \E w \in {Caller}, o \in TxOutcomes(3) :
        /\ CanTransact /\ InCall(w, "DelPort", 1)
        /\ \E t \in {Transact(db, nextUUID,
                               DelPortOps(ovsBridgeName, pc[w].name, pc[w].u), o)} :
               /\ db' = t.db
               /\ nextUUID' = t.next
               /\ pending' = Notified(pending, db, t.db)
               /\ pc' = [pc EXCEPT ![w] = [@ EXCEPT !.at = 2] @@
                                          [reply |-> t.reply, applied |-> t.applied]]
        /\ UNCHANGED <<held, cache, crashed, networks, veths, linkUp, store, ret, events>>

\* DelPort from the reply on: doOperations, return
ReturnDelPort ==
    \E w \in {Caller} :
        /\ ~crashed /\ InCall(w, "DelPort", 2)
        /\ \E ops \in {DelPortOps(ovsBridgeName, pc[w].name, pc[w].u)} :
               /\ ret' = [op |-> "DelPort", name |-> pc[w].name,
                          err |-> doOperations(pc[w].reply, Len(ops))]
               /\ events' = <<TxEvent("DelPort", pc[w].name, pc[w].hit, ops, pc[w],
                                      doOperations(pc[w].reply, Len(ops)))>>
        /\ pc' = [pc EXCEPT ![w] = Idle]
        /\ UNCHANGED <<held, db, nextUUID, cache, pending, crashed, networks, veths, linkUp,
                       store>>

\* a method of the notifier that panics ends the process
Panics(call) ==
    /\ ~crashed
    /\ crashed' = TRUE
    /\ ret' = [op |-> "Notifier", err |-> Nil]
    /\ events' = <<[ev |-> "panic", call |-> "Notifier"]>>

\* the change-feed handler: libovsdb calls Update with the next notification
Update ==
    /\ pending # <<>>
    /\ pending' = Tail(pending)
    /\ Panics("Update")
    /\ UNCHANGED <<pc, held, db, nextUUID, cache, networks, veths, linkUp, store>>

\* the other methods of the notifier, which libovsdb calls on a lock notification, on a
\* stolen lock, on an echo request of the server, and when the connection drops
Locked ==
    /\ Panics("Locked")
    /\ UNCHANGED <<pc, held, db, nextUUID, cache, pending, networks, veths, linkUp, store>>
Stolen ==
    /\ Panics("Stolen")
    /\ UNCHANGED <<pc, held, db, nextUUID, cache, pending, networks, veths, linkUp, store>>
Echo ==
    /\ Panics("Echo")
    /\ UNCHANGED <<pc, held, db, nextUUID, cache, pending, networks, veths, linkUp, store>>
Disconnected ==
    /\ Panics("Disconnected")
    /\ UNCHANGED <<pc, held, db, nextUUID, cache, pending, networks, veths, linkUp, store>>

NextOvsdb ==
    \/ CallAddPort
    \/ ReturnAddPort
    \/ CallDelPort
    \/ SendDelPort
    \/ ReturnDelPort
    \/ Update
    \/ Locked
    \/ Stolen
    \/ Echo
    \/ Disconnected

SpecOvsdb == Init /\ [][NextOvsdb]_vars


-----------------------------------------------------------------------------
(* The plugin: the restore pass, then the requests of the orchestrator. net/http
   serves every request on a goroutine of its own; a handler runs in steps, each of
   them what it does up to the release of a lock, up to the reply of the database, or
   up to the end of an operation of the kernel or of the store, and the steps of the
   handlers and of the change-feed handler come in any order. *)

NetIDs == {"", "n1"}
\* the network and endpoint ids of a request: either may be empty
EndpointKeys ==
    {[nid |-> "", eid |-> "e1"], [nid |-> "n1", eid |-> ""],
     [nid |-> "n1", eid |-> "e1"], [nid |-> "n1", eid |-> "e2"]}
Opts1 == [generic |-> TRUE, vlan |-> "10", bandwidth |-> "1000", brust |-> "100"]
\* the requests for a network: the id empty; the IPv4 list nil, empty, of one pool, of
\* two pools (with options), of a pool without a gateway, of a nil element, of a nil
\* element after a pool, of a pool whose gateway does not split
NetworkRequests ==
    {[nid |-> "", data |-> [nil |-> FALSE, items |-> <<Pool1>>], opts |-> NoOpts],
     [nid |-> "n1", data |-> [nil |-> TRUE, items |-> <<>>], opts |-> NoOpts],
     [nid |-> "n1", data |-> [nil |-> FALSE, items |-> <<>>], opts |-> NoOpts],
     [nid |-> "n1", data |-> [nil |-> FALSE, items |-> <<Pool1>>], opts |-> NoOpts],
     [nid |-> "n1", data |-> [nil |-> FALSE, items |-> <<Pool1, Pool2>>], opts |-> Opts1],
     [nid |-> "n1", data |-> [nil |-> FALSE, items |-> <<PoolNoGw>>], opts |-> NoOpts],
     [nid |-> "n1", data |-> [nil |-> FALSE, items |-> <<NilPool>>], opts |-> NoOpts],
     [nid |-> "n1", data |-> [nil |-> FALSE, items |-> <<Pool1, NilPool>>], opts |-> NoOpts]}
    \cup {[nid |-> "n1", data |-> [nil |-> FALSE, items |-> <<p>>], opts |-> NoOpts] :
             p \in MalformedPools}
\* the interfaces of a CreateEndpoint request: 2/2 lies in the first pool, 6/2 in no
\* pool, 10/2 in the second pool but with another mask length
NoInterface == [nil |-> TRUE, address |-> NoCIDR, mac |-> NoMACString]
Interface(a, m) == [nil |-> FALSE, address |-> a, mac |-> m]
GivenMAC == MACString(<<2, 66, 0, 0, 0, 7>>)
\* the requests for an endpoint: an id empty, the interface nil, the address empty,
\* outside the subnets, inside one, the MAC given or not
EndpointRequests ==
    {[nid |-> "", eid |-> "e1", intf |-> Interface(CIDR(2, 2), NoMACString)],
     [nid |-> "n1", eid |-> "", intf |-> Interface(CIDR(2, 2), NoMACString)],
     [nid |-> "n1", eid |-> "e1", intf |-> NoInterface],
     [nid |-> "n1", eid |-> "e1", intf |-> Interface(NoCIDR, NoMACString)],
     [nid |-> "n1", eid |-> "e1", intf |-> Interface(CIDR(6, 2), NoMACString)],
     [nid |-> "n1", eid |-> "e2", intf |-> Interface(CIDR(10, 2), GivenMAC)],
     [nid |-> "n1", eid |-> "e1", intf |-> Interface(CIDR(2, 2), NoMACString)],
     [nid |-> "n1", eid |-> "e2", intf |-> Interface(CIDR(2, 2), GivenMAC)]}
\* the tokens GenerateIfaceName may draw
Tokens == {"1"}

\* what the environment does to CreateEndpoint up to the veth pair: GenerateIfaceName
\* fails, or it returns a name and the veth pair is made or not. What the call does
\* not get to is left at "ok".
QuietCreate == [name |-> "ok", token |-> "1", rand |-> <<0, 0, 0, 7>>, veth |-> "ok"]
CreateOutcomes ==
    {QuietCreate, [QuietCreate EXCEPT !.name = "fail"], [QuietCreate EXCEPT !.veth = "fail"]}
\* the outcomes that tell the calls of the request `in` apart
CreateOutcomesFor(w, in) ==
    IF CreateEndpointChecks(w, in, "fail").err # Err("ovs generate interface name err", "")
    THEN {QuietCreate}
    ELSE IF CreateEndpointChecks(w, in, "ok").err # Nil
    THEN {QuietCreate, [QuietCreate EXCEPT !.name = "fail"]}
    ELSE CreateOutcomes

\* the orders a map of the keys S may be ranged over in
Orders(S) ==
    {o \in [1..Cardinality(S) -> S] : \A i, j \in DOMAIN o : o[i] = o[j] => i = j}

\* what the environment does to the restore of one persisted endpoint
RestoreOutcomes(c, ep) ==
    {[resolve |-> TRUE, tx |-> OkTx, veth |-> "ok", store |-> "ok",
      u |-> CHOOSE u \in DelPortUUIDs(c, getOvsPortName(ep.intfName)) : TRUE]}
    \cup {e \in [resolve : {FALSE}, tx : PluginTx, veth : {"ok", "fail"},
                  store : {"ok", "fail"}, u : DelPortUUIDs(c, getOvsPortName(ep.intfName))] :
            /\ e.tx.kind = "reject" => e.veth = "ok"
            /\ (e.tx.kind = "reject" \/ e.veth = "fail") => e.store = "ok"}

Started == ret.op # "NewOvsdbDriver"
\* the process serves requests
Serving == Started /\ ~crashed

\* the request goes to the first goroutine of W that serves none
Takes(W, k) == k \in W /\ pc[k] = Idle /\ \A j \in W : j < k => pc[j] # Idle

\* the world of the handler worker k runs
WorldOf(k) == [World EXCEPT !.ev = pc[k].ev, !.n = pc[k].n, !.ep = pc[k].ep]

\* where a handler is after a step: the request, the events so far, the *network and
\* the *endpoint it holds, and its other local variables
Position(call, at, arg, w, more) ==
    [call |-> call, at |-> at, arg |-> arg, ev |-> w.ev, n |-> w.n, ep |-> w.ep] @@ more

\* whether the call at p takes note of the answer a: a CreateEndpoint of the removals
\* of its network that succeed while it runs, a DeleteNetwork or a FreeNetwork of the
\* CreateEndpoint calls on its network
Meets(p, a) ==
    /\ a # <<>> /\ a.ok /\ a.nid = p.arg.nid
    /\ \/ p.call = "CreateEndpoint" /\ a.op \in {"DeleteNetwork", "FreeNetwork"}
       \/ p.call \in {"DeleteNetwork", "FreeNetwork"} /\ a.op = "CreateEndpoint"

\* what a handler at p holds after the step of another handler that ends in w: the
\* objects it has a pointer to are as that step left them, and the call that step
\* answered, if any, is one the handler has met
Seen(p, w) ==
    IF p = Idle \/ "n" \notin DOMAIN p THEN p
    ELSE LET e(x) == IF w.settled # <<>> /\ x.by = w.settled.by THEN w.settled.ep ELSE x
             n1 == IF p.n.obj # 0 /\ p.n.obj = w.n.obj THEN w.n ELSE p.n
             n2 == IF n1 = NoNet THEN n1
                   ELSE [n1 EXCEPT !.endpoints = [x \in DOMAIN n1.endpoints |-> e(n1.endpoints[x])]]
             q == [p EXCEPT !.n = n2, !.ep = e(p.ep),
                            !.met = IF Meets(p, w.answer) THEN @ \cup {w.answer} ELSE @]
         IN  IF "must" \in DOMAIN p
             THEN [q EXCEPT !.must = p.must \cap DOMAIN n2.endpoints,
                            !.seen = p.seen \cap DOMAIN n2.endpoints]
             ELSE q

\* the step of worker k ends with the world w and leaves the worker at `next`
Step(k, w, next) ==
    /\ db' = w.db
    /\ nextUUID' = w.next
    /\ pending' = w.pending
    /\ networks' = w.networks
    /\ veths' = w.veths
    /\ linkUp' = w.linkUp
    /\ store' = w.store
    /\ crashed' = w.crashed
    /\ pc' = [v \in Workers |-> IF v = k THEN next ELSE Seen(pc[v], w)]
    /\ UNCHANGED <<cache, held>>

\* the registry, the database, the veth pairs and the store when a call begins, and
\* the calls answered while it runs
Snap == [networks |-> networks, db |-> db, veths |-> veths, store |-> store]
WasOf(k) == IF pc[k] = Idle THEN Snap ELSE pc[k].was
MetOf(k) == IF pc[k] = Idle THEN {} ELSE pc[k].met

\* the endpoints in the map of the network object the handler holds, when the
\* registry no longer has the object
LostIn(w) == IF w.n = NoNet \/ Attached(w) THEN {} ELSE DOMAIN w.n.endpoints

\* the handler returns: the orchestrator has its answer
Answer(k, call, arg, w) ==
    /\ Step(k, [w EXCEPT !.answer = [op |-> call,
                                     nid |-> IF "nid" \in DOMAIN arg THEN arg.nid ELSE "",
                                     ok |-> w.err = Nil, ports |-> CreatedPorts(w.ev)]],
            Idle)
    /\ ret' = [op |-> call, arg |-> arg, err |-> w.err, res |-> w.res,
               met |-> MetOf(k), lost |-> LostIn(w)]
    /\ events' = w.ev

\* no answer: the orchestrator has sent a request since the last one
Asked == [op |-> "", err |-> Nil]

\* the step of a handler: it has returned, or it goes on at `at`; a request that is
\* not answered in its first step leaves the orchestrator without an answer
Then(k, call, at, arg, w, more) ==
    IF Returned(w) THEN Answer(k, call, arg, w)
    ELSE /\ Step(k, w, Position(call, at, arg, w, more)
                          @@ [was |-> WasOf(k), met |-> MetOf(k)])
         /\ ret' = IF pc[k] = Idle THEN Asked ELSE ret
         /\ events' = IF pc[k] = Idle THEN <<>> ELSE events

EndpointsOf(nid) ==
    IF nid \in DOMAIN networks THEN networks[nid].endpoints ELSE NoEndpoints
EndpointOf(nid, eid) ==
    IF eid \in DOMAIN EndpointsOf(nid) THEN {EndpointsOf(nid)[eid]} ELSE {}
NoLocals == [x \in {} |-> 0]

\* the restore pass, at startup, before the plugin listens
Restore ==
    /\ ~Started /\ ~crashed
    /\ \E order \in Orders(DOMAIN store) :
         \E envs \in {f \in [DOMAIN store ->
                              UNION {RestoreOutcomes(cache, Restored(store[e])) : e \in DOMAIN store}] :
                        /\ \A e \in DOMAIN store :
                              f[e] \in RestoreOutcomes(cache, Restored(store[e]))
                        /\ \A e1, e2 \in DOMAIN store :
                              store[e1].value.nid = store[e2].value.nid
                                  => f[e1].resolve = f[e2].resolve} :
            Answer(Caller, "Restore", [persisted |-> store],
                   RestorePass(World, cache, order, envs))

\* CreateNetwork: the checks, then the entry under d.Lock
CallCreateNetwork(W, R) ==
    \E k \in W, r \in R :
        /\ Serving /\ Takes(W, k)
        /\ Answer(k, "CreateNetwork", r, CreateNetwork(World, r.nid, r.data, r.opts))

\* AllocateNetwork
CallAllocateNetwork(W, R) ==
    \E k \in W, r \in R :
        /\ Serving /\ Takes(W, k)
        /\ Answer(k, "AllocateNetwork", r, AllocateNetwork(World, r.nid, r.data, r.opts))

\* FreeNetwork up to the first d.Unlock()
CallFreeNetwork(W, N) ==
    \E k \in W, nid \in N :
        /\ Serving /\ Takes(W, k)
        /\ Then(k, "FreeNetwork", 1,
                [nid |-> nid, known |-> nid \in DOMAIN networks, eps |-> EndpointsOf(nid)],
                FreeNetworkLookup(World, nid), NoLocals)

\* FreeNetwork from the second d.Lock() on
ReturnFreeNetwork ==
    \E k \in Workers :
        /\ ~crashed /\ InCall(k, "FreeNetwork", 1)
        /\ Answer(k, "FreeNetwork", pc[k].arg, FreeNetworkRemove(WorldOf(k), pc[k].arg.nid))

\* DeleteNetwork up to d.Unlock()
CallDeleteNetwork(W, N) ==
    \E k \in W, nid \in N :
        /\ Serving /\ Takes(W, k)
        /\ Then(k, "DeleteNetwork", 1,
                [nid |-> nid, known |-> nid \in DOMAIN networks, eps |-> EndpointsOf(nid)],
                DeleteNetworkLookup(World, nid),
                [seen |-> {}, must |-> {}, cur |-> NoEndpoint, u |-> <<>>])

\* the endpoints the range over n.endpoints has yet to produce: those of the map that
\* were there when the loop began; one put in since may be produced or not
MustRange(k) ==
    IF pc[k].at = 1 THEN DOMAIN pc[k].n.endpoints
    ELSE pc[k].must \cap DOMAIN pc[k].n.endpoints

\* DeleteNetwork at the head of its loop, with no lock held: what DelPort returned
\* for the endpoint before; then the range ends, or it produces an endpoint, whose
\* veth pair is deleted and whose port DelPort looks up in the cache
RangeDeleteNetwork ==
    \E k \in Workers, e \in {"e1", "e2", ""}, o \in {"ok", "fail"} :
      \E w \in {IF pc[k] # Idle /\ pc[k].call = "DeleteNetwork" /\ pc[k].at = 3
                THEN DeleteNetworkReply(WorldOf(k)) ELSE World} :
        /\ ~crashed /\ pc[k] # Idle /\ pc[k].call = "DeleteNetwork" /\ pc[k].at \in {1, 3, 4}
        /\ IF w.err # Nil
           THEN e = "" /\ o = "ok" /\ Answer(k, "DeleteNetwork", pc[k].arg, w)
           ELSE IF e = ""
           THEN /\ o = "ok" /\ MustRange(k) \subseteq pc[k].seen
                /\ Then(k, "DeleteNetwork", 5, pc[k].arg, WorldOf(k),
                        [seen |-> pc[k].seen, must |-> MustRange(k), cur |-> NoEndpoint,
                         u |-> <<>>])
           ELSE /\ e \in (DOMAIN pc[k].n.endpoints) \ pc[k].seen
                /\ \E ep \in {pc[k].n.endpoints[e]} :
                     IF ep.intfName = <<>>
                     THEN /\ o = "ok"
                          /\ Then(k, "DeleteNetwork", 4, pc[k].arg, WorldOf(k),
                                  [seen |-> pc[k].seen \cup {e}, must |-> MustRange(k),
                                   cur |-> ep, u |-> <<>>])
                     ELSE \E u \in DelPortUUIDs(cache, getOvsPortName(ep.intfName)) :
                            /\ (o = "fail" =>
                                  u = CHOOSE x \in DelPortUUIDs(cache, getOvsPortName(ep.intfName)) : TRUE)
                            /\ Then(k, "DeleteNetwork", 2, pc[k].arg,
                                    DeleteNetworkVeth(WorldOf(k), ep, o),
                                    [seen |-> pc[k].seen \cup {e}, must |-> MustRange(k),
                                     cur |-> ep, u |-> u])

\* DeleteNetwork in DelPort: the transaction up to its reply
SendDeleteNetwork(O) ==
    \E k \in Workers, o \in O :
        /\ CanTransact /\ InCall(k, "DeleteNetwork", 2)
        /\ Then(k, "DeleteNetwork", 3, pc[k].arg,
                DeleteNetworkPort(WorldOf(k), cache, pc[k].cur, pc[k].u, o),
                [seen |-> pc[k].seen, must |-> pc[k].must, cur |-> pc[k].cur, u |-> pc[k].u])

\* DeleteNetwork after its loop: delete(d.networks, nid) under d.Lock
ReturnDeleteNetwork ==
    \E k \in Workers :
        /\ ~crashed /\ InCall(k, "DeleteNetwork", 5)
        /\ Answer(k, "DeleteNetwork", pc[k].arg,
                  DeleteNetworkRemove(WorldOf(k), pc[k].arg.nid))

\* the identifiers a CreateEndpoint that has yet to send its transaction will take
Reserved == 2 * Cardinality({v \in Workers : InCall(v, "CreateEndpoint", 1)})

\* CreateEndpoint up to the veth pair
CallCreateEndpoint(W, R) ==
    \E k \in W, in \in R :
        /\ Serving /\ Takes(W, k)
        /\ nextUUID + Reserved + 2 <= MaxUUID
        /\ \E env \in CreateOutcomesFor(World, in) :
             Then(k, "CreateEndpoint", 1, in,
                  CreateEndpointVeth(World, in, env @@ [by |-> k]), NoLocals)

\* CreateEndpoint in AddPort: the transaction up to its reply
SendCreateEndpoint(O) ==
    \E k \in Workers, o \in O :
        /\ CanTransact /\ InCall(k, "CreateEndpoint", 1)
        /\ Then(k, "CreateEndpoint", 2, pc[k].arg, CreateEndpointPort(WorldOf(k), o), NoLocals)

\* CreateEndpoint from the reply to n.Unlock(): n.Lock() waits while n is locked
InsertCreateEndpoint ==
    \E k \in Workers :
        /\ ~crashed /\ InCall(k, "CreateEndpoint", 2)
        /\ LastErr(WorldOf(k)) = Nil => ~pc[k].n.locked
        /\ Then(k, "CreateEndpoint", 3, pc[k].arg, CreateEndpointInsert(WorldOf(k)), NoLocals)

\* CreateEndpoint from writeEndpointToStore on
ReturnCreateEndpoint ==
    \E k \in Workers, s \in {"ok", "fail"} :
        /\ ~crashed /\ InCall(k, "CreateEndpoint", 3)
        /\ Answer(k, "CreateEndpoint", pc[k].arg, CreateEndpointStore(WorldOf(k), s))

\* DeleteEndpoint up to the veth pair
CallDeleteEndpoint(W, K) ==
    \E k \in W, key \in K, o \in {"ok", "fail"} :
        /\ Serving /\ Takes(W, k)
        /\ o = "fail" => Lookup(World, key.nid, key.eid).err = Nil
        /\ Then(k, "DeleteEndpoint", 1,
                [nid |-> key.nid, eid |-> key.eid, ep |-> EndpointOf(key.nid, key.eid)],
                DeleteEndpointVeth(World, key.nid, key.eid, o), NoLocals)

\* deleteEndpoint: the removal from the map under n.Lock, which waits while n is
\* locked
RemoveDeleteEndpoint ==
    \E k \in Workers :
        /\ ~crashed /\ InCall(k, "DeleteEndpoint", 1)
        /\ ~pc[k].n.locked
        /\ Then(k, "DeleteEndpoint", 2, pc[k].arg, deleteEndpointRemove(WorldOf(k)), NoLocals)

\* deleteEndpoint from deleteEndpointFromStore on
ReturnDeleteEndpoint ==
    \E k \in Workers, s \in {"ok", "fail"} :
        /\ ~crashed /\ InCall(k, "DeleteEndpoint", 2)
        /\ Answer(k, "DeleteEndpoint", pc[k].arg, deleteEndpointFromStore(WorldOf(k), s))

\* Join
CallJoin(W, K) ==
    \E k \in W, key \in K, l \in {"ok", "fail"} :
        /\ Serving /\ Takes(W, k)
        /\ l = "fail" => Lookup(World, key.nid, key.eid).err = Nil
        /\ Answer(k, "Join",
                  [nid |-> key.nid, eid |-> key.eid, ep |-> EndpointOf(key.nid, key.eid)],
                  Join(World, key.nid, key.eid, l))

\* Leave up to the RUnlock of DelPort: the lookups and the scan of the cache
CallLeave(W, K) ==
    \E k \in W, key \in K :
      \E w \in {LeaveLookup(World, key.nid, key.eid)} :
        \E u \in IF w.err # Nil THEN {<<>>}
                 ELSE DelPortUUIDs(cache, getOvsPortName(w.ep.intfName)) :
          /\ Serving /\ Takes(W, k)
          /\ Then(k, "Leave", 1,
                  [nid |-> key.nid, eid |-> key.eid, ep |-> EndpointOf(key.nid, key.eid)],
                  w, [u |-> u])

\* Leave in DelPort: the transaction up to its reply
SendLeave(O) ==
    \E k \in Workers, o \in O :
        /\ CanTransact /\ InCall(k, "Leave", 1)
        /\ Then(k, "Leave", 2, pc[k].arg, LeavePort(WorldOf(k), cache, pc[k].u, o),
                [u |-> pc[k].u])

\* Leave from the reply on
ReturnLeave ==
    \E k \in Workers :
        /\ ~crashed /\ InCall(k, "Leave", 2)
        /\ Answer(k, "Leave", pc[k].arg, LeaveReply(WorldOf(k)))

\* the maps the next step of worker k writes, under their lock: the map of networks
\* (0) or the endpoint map of a network object. A worker that serves no request may
\* at any time begin a CreateNetwork or an AllocateNetwork.
Writes(k) ==
    IF pc[k] = Idle THEN {<<"networks", 0>>}
    ELSE IF InCall(k, "FreeNetwork", 1) \/ InCall(k, "DeleteNetwork", 5) THEN {<<"networks", 0>>}
    ELSE IF InCall(k, "DeleteEndpoint", 1) THEN {<<"endpoints", pc[k].n.obj>>}
    ELSE IF InCall(k, "CreateEndpoint", 2) /\ LastErr(WorldOf(k)) = Nil /\ pc[k].n.hasMap
    THEN {<<"endpoints", pc[k].n.obj>>}
    ELSE {}

\* the maps the next step of worker k reads with no lock held: a worker that serves
\* no request may begin a CreateEndpoint, DeleteEndpoint, Join or Leave, which look the
\* network up and, the last three, the endpoint in its map; DeleteNetwork ranges over
\* the endpoint map
Reads(k) ==
    IF pc[k] = Idle
    THEN {<<"networks", 0>>} \cup {<<"endpoints", networks[x].obj>> : x \in DOMAIN networks}
    ELSE IF pc[k].call = "DeleteNetwork" /\ pc[k].at \in {1, 3, 4}
    THEN {<<"endpoints", pc[k].n.obj>>}
    ELSE {}

\* a data race: one goroutine writes a map while another reads it with no lock held.
\* The behaviour is undefined; besides the outcomes in which the read comes before or
\* after the write, which are the steps in either order, the runtime may end the
\* process (fatal error: concurrent map read and map write).
MapRace ==
    \E a, b \in Workers :
        /\ Serving /\ a # b
        /\ Writes(a) \cap Reads(b) # {}
        /\ crashed' = TRUE
        /\ ret' = [op |-> "fatal error", err |-> Nil]
        /\ events' = <<[ev |-> "fatal", what |-> "concurrent map read and map write"]>>
        /\ UNCHANGED <<pc, held, db, nextUUID, cache, pending, networks, veths, linkUp, store>>

\* the requests of a client that tries every handler on one network and its endpoints
SomeNetworks ==
    {[nid |-> "n1", data |-> [nil |-> FALSE, items |-> <<Pool1>>], opts |-> NoOpts],
     [nid |-> "n1", data |-> [nil |-> FALSE, items |-> <<Pool1, Pool2>>], opts |-> Opts1]}
\* 2/2 lies in the first pool, 10/2 in the second pool but with another mask length
SomeEndpoints ==
    {[nid |-> "n1", eid |-> "e1", intf |-> Interface(CIDR(2, 2), NoMACString)],
     [nid |-> "n1", eid |-> "e1", intf |-> Interface(CIDR(10, 2), NoMACString)],
     [nid |-> "n1", eid |-> "e2", intf |-> Interface(CIDR(2, 2), GivenMAC)]}
SomeKeys == {[nid |-> "n1", eid |-> "e1"], [nid |-> "n1", eid |-> "e2"]}

\* the lifecycle of networks and endpoints, the requests one after the other
Next ==
    \/ Restore
    \/ CallCreateNetwork({Caller}, SomeNetworks)
    \/ CallAllocateNetwork({Caller}, SomeNetworks)
    \/ CallFreeNetwork({Caller}, {"n1"})
    \/ ReturnFreeNetwork
    \/ CallDeleteNetwork({Caller}, {"n1"})
    \/ RangeDeleteNetwork
    \/ SendDeleteNetwork(PluginTx)
    \/ ReturnDeleteNetwork
    \/ CallCreateEndpoint({Caller}, SomeEndpoints)
    \/ SendCreateEndpoint(PluginTx)
    \/ InsertCreateEndpoint
    \/ ReturnCreateEndpoint
    \/ CallDeleteEndpoint({Caller}, SomeKeys)
    \/ RemoveDeleteEndpoint
    \/ ReturnDeleteEndpoint
    \/ CallJoin({Caller}, SomeKeys)
    \/ CallLeave({Caller}, SomeKeys)
    \/ SendLeave(PluginTx)
    \/ ReturnLeave
    \/ Update
    \/ Locked
    \/ Stolen
    \/ Echo
    \/ Disconnected

Spec == Init /\ [][Next]_vars

\* the registry with every request for a network
NextRegistry ==
    \/ Restore
    \/ CallCreateNetwork({Caller}, NetworkRequests)
    \/ CallAllocateNetwork({Caller}, NetworkRequests)
    \/ CallFreeNetwork({Caller}, NetIDs)
    \/ ReturnFreeNetwork
    \/ CallCreateEndpoint({Caller}, EndpointRequests)
    \/ SendCreateEndpoint(PluginTx)
    \/ InsertCreateEndpoint
    \/ ReturnCreateEndpoint
    \/ CallJoin({Caller}, EndpointKeys)
    \/ Update
    \/ Locked
    \/ Stolen
    \/ Echo
    \/ Disconnected

SpecRegistry == Init /\ [][NextRegistry]_vars

\* the registry of endpoints after a restart
NextEndpoints ==
    \/ Restore
    \/ CallCreateEndpoint({Caller}, EndpointRequests)
    \/ SendCreateEndpoint(PluginTx)
    \/ InsertCreateEndpoint
    \/ ReturnCreateEndpoint
    \/ CallDeleteEndpoint({Caller}, EndpointKeys)
    \/ RemoveDeleteEndpoint
    \/ ReturnDeleteEndpoint
    \/ CallJoin({Caller}, EndpointKeys)
    \/ CallLeave({Caller}, EndpointKeys)
    \/ SendLeave(PluginTx)
    \/ ReturnLeave
    \/ Update
    \/ Locked
    \/ Stolen
    \/ Echo
    \/ Disconnected

SpecEndpoints == InitRestart /\ [][NextEndpoints]_vars

\* the state after NewOvsdbDriver on a host no previous run has left anything on
InitFresh ==
    /\ db = EmptyDB
    /\ veths = {}
    /\ store = NoStore
    /\ nextUUID = 0
    /\ cache = populateCache(<<>>, Snapshot(db))
    /\ pending = <<>>
    /\ crashed = FALSE
    /\ networks = NoNetworks
    /\ linkUp = {}
    /\ ret = NoCall
    /\ events = <<>>
    /\ pc = [w \in Workers |-> Idle]
    /\ held = [w \in Workers |-> {}]

\* the requests that come at the same time: those for one network and one endpoint
OneNetwork == {[nid |-> "n1", data |-> [nil |-> FALSE, items |-> <<Pool1>>], opts |-> NoOpts]}
OneEndpoint == {[nid |-> "n1", eid |-> "e1", intf |-> Interface(CIDR(2, 2), NoMACString)]}
OneKey == {[nid |-> "n1", eid |-> "e1"]}

\* the requests served at the same time, each on its goroutine, with a database that
\* answers every transaction
NextConcurrent ==
    \/ Restore
    \/ CallCreateNetwork(Workers, OneNetwork)
    \/ CallAllocateNetwork(Workers, OneNetwork)
    \/ CallFreeNetwork(Workers, {"n1"})
    \/ ReturnFreeNetwork
    \/ CallDeleteNetwork(Workers, {"n1"})
    \/ RangeDeleteNetwork
    \/ SendDeleteNetwork({OkTx})
    \/ ReturnDeleteNetwork
    \/ CallCreateEndpoint(Workers, OneEndpoint)
    \/ SendCreateEndpoint({OkTx})
    \/ InsertCreateEndpoint
    \/ ReturnCreateEndpoint
    \/ CallDeleteEndpoint(Workers, OneKey)
    \/ RemoveDeleteEndpoint
    \/ ReturnDeleteEndpoint
    \/ CallJoin(Workers, OneKey)
    \/ CallLeave(Workers, OneKey)
    \/ SendLeave({OkTx})
    \/ ReturnLeave
    \/ MapRace
    \/ Update
    \/ Locked
    \/ Stolen
    \/ Echo
    \/ Disconnected

SpecConcurrent == InitFresh /\ [][NextConcurrent]_vars

-----------------------------------------------------------------------------
(* doOperations on its own: every list of replies, for every number of operations *)

\* replies in one list
MaxReplies == 4
\* operations in one transaction
MaxOps == 3

Replies == {Nil, Err("e1", "d1"), Err("e2", "d2")}
ReplyLists == UNION {[1..n -> Replies] : n \in 0..MaxReplies}

CallDoOperations ==
    \E reply \in ReplyLists, n \in 0..MaxOps :
        /\ ret' = [op |-> "doOperations", reply |-> reply, nops |-> n,
                   err |-> doOperations(reply, n)]
        /\ UNCHANGED <<pc, held, db, nextUUID, cache, pending, crashed, networks, veths, linkUp,
                       store, events>>

SpecExec == Init /\ [][CallDoOperations]_vars

-----------------------------------------------------------------------------
(* getSubnetforIP on its own: every short list of subnets, every address *)

\* subnets in one network
MaxSubnets == 3

\* the pools a subnet may have: two disjoint ones of one mask length, and two of a
\* shorter mask length that overlap them
LookupPools == {CIDR(0, 2), CIDR(4, 2), CIDR(0, 1), CIDR(8, 1)}
\* the subnets of those pools, as CreateNetwork derives them
LookupSubnets ==
    {[subnetIP |-> ParseCIDR(p), gwIP |-> ParseCIDR(CIDR(p.ip + 1, p.len))] :
        p \in LookupPools}
SubnetLists == UNION {[1..n -> LookupSubnets] : n \in 0..MaxSubnets}
\* the addresses looked up: any address, with one of the two mask lengths
LookupAddrs == [ip : 0..(Pow2(AddrBits) - 1), mask : {1, 2}]

CallGetSubnetforIP ==
    /\ ~Started
    /\ \E subnets \in SubnetLists, ip \in LookupAddrs :
        /\ ret' = [op |-> "getSubnetforIP", subnets |-> subnets, ip |-> ip,
                   err |-> Nil, res |-> getSubnetforIP(subnets, ip)]
        /\ UNCHANGED <<pc, held, db, nextUUID, cache, pending, crashed, networks, veths, linkUp,
                       store, events>>

SpecSubnet == Init /\ [][CallGetSubnetforIP]_vars

-----------------------------------------------------------------------------
(* MAC generation on its own: random bytes, and pairs of addresses *)

\* the values a byte takes in the model
ByteVals == {0, 1, 255}
Bytes4 == [1..4 -> ByteVals]
\* the 16-byte form of an IPv4 address, and an address that is not IPv4
Mapped(a) == <<0, 0, 0, 0, 0, 0, 0, 0, 0, 0, 255, 255>> \o a
NotV4 == <<32, 1, 0, 0, 0, 0, 0, 0, 0, 0, 0, 0, 0, 0, 0, 1>>
\* the addresses GenerateMACFromIP is called with
MACAddrs == Bytes4 \cup {Mapped(a) : a \in Bytes4} \cup {NotV4}

CallGenerateRandomMAC ==
    /\ ~Started
    /\ \E rnd \in Bytes4 :
        /\ ret' = [op |-> "GenerateRandomMAC", err |-> Nil, in |-> <<rnd>>,
                   macs |-> <<GenerateRandomMAC(rnd)>>]
        /\ UNCHANGED <<pc, held, db, nextUUID, cache, pending, crashed, networks, veths, linkUp,
                       store, events>>

\* two calls of GenerateMACFromIP
CallGenerateMACFromIP ==
    /\ ~Started
    /\ \E a \in MACAddrs, b \in MACAddrs :
        /\ ret' = [op |-> "GenerateMACFromIP", err |-> Nil, in |-> <<a, b>>,
                   macs |-> <<GenerateMACFromIP(a), GenerateMACFromIP(b)>>]
        /\ UNCHANGED <<pc, held, db, nextUUID, cache, pending, crashed, networks, veths, linkUp,
                       store, events>>

NextMAC ==
    \/ CallGenerateRandomMAC
    \/ CallGenerateMACFromIP

SpecMAC == Init /\ [][NextMAC]_vars

-----------------------------------------------------------------------------
(* populateCache on its own: every small cache, every small update *)

CacheTables == {portTable, intfTable}
CacheIds == {UUIDOf(1), UUIDOf(2)}
\* the row values of the model
CacheRowVals == {[name |-> <<"vport", "0">>], [name |-> <<"port", "1">>]}
\* the functions from a subset of S to V
Partial(S, V) == UNION {[D -> V] : D \in SUBSET S}
\* the caches: some tables, each with some rows
Caches == Partial(CacheTables, Partial(CacheIds, CacheRowVals))
\* the updates: some tables, each with some rows changed or deleted
TableUpdates ==
    Partial(CacheTables, Partial(CacheIds, [new : CacheRowVals \cup {EmptyRow}]))

CallPopulateCache ==
    /\ ~Started
    /\ \E c \in Caches, u \in TableUpdates :
        /\ ret' = [op |-> "populateCache", err |-> Nil, cache |-> c, updates |-> u,
                   once |-> populateCache(c, u),
                   twice |-> populateCache(populateCache(c, u), u)]
        /\ UNCHANGED <<pc, held, db, nextUUID, cache, pending, crashed, networks, veths, linkUp,
                       store, events>>

SpecCache == Init /\ [][CallPopulateCache]_vars

-----------------------------------------------------------------------------
(* The locks: requests served at the same time, each call as the sequence of its
   lock operations, map accesses and transactions. Every request names the same
   network and the same endpoint; of a network object the registry of this view
   keeps whether it is the one stored under the id (reg), whether it has an
   endpoint map (hasMap) and whether the endpoint is in it (has). *)

\* Driver.Mutex, network.Mutex and OvsdbDriver.RWMutex
driverLock == "Driver"
networkLock == "network"
ovsdbLock == "OvsdbDriver"

Acq(l) == [k |-> "lock", on |-> l]
Rel(l) == [k |-> "unlock", on |-> l]
RAcq(l) == [k |-> "rlock", on |-> l]
RRel(l) == [k |-> "runlock", on |-> l]
Rd(m) == [k |-> "read", on |-> m]
Wr(m) == [k |-> "write", on |-> m]
Tx == [k |-> "tx", on |-> "ovsdb"]

\* AddPort: doOperations
AddPortCode == <<Tx>>
\* DelPort: the scan of d.cache under the read lock, then doOperations
DelPortCode == <<RAcq(ovsdbLock), Rd("cache"), RRel(ovsdbLock), Tx>>
\* CreateNetwork and AllocateNetwork: d.networks[id] = n under the lock
CreateNetworkCode == <<Acq(driverLock), Wr("networks"), Rel(driverLock)>>
AllocateNetworkCode == <<Acq(driverLock), Wr("networks"), Rel(driverLock)>>
\* DeleteNetwork: the lookup under the lock; the range over n.endpoints, which reads
\* the map at the head of the loop, before the first endpoint and again after the
\* DelPort of each; the delete under the lock. The view has one endpoint, so the body
\* of the loop runs once at most and the head of the loop is reached twice at most.
DeleteNetworkCode ==
    <<Acq(driverLock), Rd("networks"), Rel(driverLock), Rd("endpoints")>>
    \o DelPortCode \o <<Rd("endpoints")>>
    \o <<Acq(driverLock), Wr("networks"), Rel(driverLock)>>
\* FreeNetwork: the lookup under the lock, the delete under the lock
FreeNetworkCode ==
    <<Acq(driverLock), Rd("networks"), Rel(driverLock),
      Acq(driverLock), Wr("networks"), Rel(driverLock)>>
\* CreateEndpoint: d.networks[networkID], AddPort, n.endpoints[ep.id] = ep under n's lock
CreateEndpointCode ==
    <<Rd("networks")>> \o AddPortCode
    \o <<Acq(networkLock), Wr("endpoints"), Rel(networkLock)>>
\* DeleteEndpoint: d.networks[nid], n.endpoints[eid], the delete under n's lock
DeleteEndpointCode ==
    <<Rd("networks"), Rd("endpoints"), Acq(networkLock), Wr("endpoints"), Rel(networkLock)>>
\* Join: d.networks[nid], n.endpoints[eid]
JoinCode == <<Rd("networks"), Rd("endpoints")>>
\* Leave: d.networks[nid], n.endpoints[eid], DelPort
LeaveCode == <<Rd("networks"), Rd("endpoints")>> \o DelPortCode

Calls ==
    {"CreateNetwork", "AllocateNetwork", "DeleteNetwork", "FreeNetwork",
     "CreateEndpoint", "DeleteEndpoint", "Join", "Leave"}
CodeOf(call) ==
    CASE call = "CreateNetwork" -> CreateNetworkCode
      [] call = "AllocateNetwork" -> AllocateNetworkCode
      [] call = "DeleteNetwork" -> DeleteNetworkCode
      [] call = "FreeNetwork" -> FreeNetworkCode
      [] call = "CreateEndpoint" -> CreateEndpointCode
      [] call = "DeleteEndpoint" -> DeleteEndpointCode
      [] call = "Join" -> JoinCode
      [] call = "Leave" -> LeaveCode
      [] OTHER -> <<>>

\* the step worker w is about to take: an instruction of its call, or its return
AtEnd(w) == pc[w] # Idle /\ pc[w].at > Len(CodeOf(pc[w].call))
Running(w) == pc[w] # Idle /\ ~AtEnd(w)
Upcoming(w) == CodeOf(pc[w].call)[pc[w].at]
About(w, kinds) == Running(w) /\ Upcoming(w).k \in kinds

\* the object whose lock or map the next instruction of worker w is about: that of
\* the network the worker has looked up, for network.Mutex and n.endpoints
ObjectOf(w) == IF Upcoming(w).on \in {networkLock, "endpoints"} THEN pc[w].obj ELSE 0
Holds(w, l) == \E h \in held[w] : h.on = l
\* whether worker w holds the mutex l of the object o: network.Mutex is one mutex
\* for every network object
HoldsOf(w, l, o) == \E h \in held[w] : h.on = l /\ h.obj = o
\* a mutex is free when nobody holds it; a read lock can be taken when no writer holds
Free(l, o) == \A v \in Workers : \A h \in held[v] : ~(h.on = l /\ h.obj = o)
NoWriter(l) == \A v \in Workers : [on |-> l, obj |-> 0, mode |-> "w"] \notin held[v]

\* a notification of the database: the rows of a port
SomeUpdate == Snapshot(PreDB)

\* the network objects the registry view keeps: the one stored under the id and
\* those a running call has a pointer to; a lock of an object nobody can reach is
\* gone with the object
Reachable(nets, pcs) ==
    {o \in DOMAIN nets : nets[o].reg \/ \E v \in Workers : pcs[v] # Idle /\ pcs[v].obj = o}
Collect(nets, pcs) == [o \in Reachable(nets, pcs) |-> nets[o]]
Kept(nets, pcs) ==
    [v \in Workers |-> {h \in held[v] : h.obj = 0 \/ h.obj \in Reachable(nets, pcs)}]
\* the identity of a new object
NewObject == CHOOSE k \in 1..(Cardinality(DOMAIN networks) + 1) :
                 k \notin DOMAIN networks /\ \A j \in 1..(k - 1) : j \in DOMAIN networks
InRegistry == {o \in DOMAIN networks : networks[o].reg}
Unregistered == [o \in DOMAIN networks |-> [networks[o] EXCEPT !.reg = FALSE]]

BeginCall ==
    \E w \in Workers, call \in Calls :
        /\ ~crashed /\ Takes(Workers, w)
        /\ pc' = [pc EXCEPT ![w] = [call |-> call, at |-> 1, obj |-> 0, miss |-> FALSE]]
        /\ UNCHANGED <<db, nextUUID, cache, pending, crashed, networks, veths, linkUp,
                       store, ret, events, held>>

\* Lock and RLock
Acquire ==
    \E w \in Workers :
        /\ ~crashed /\ About(w, {"lock", "rlock"})
        /\ IF Upcoming(w).k = "lock" THEN Free(Upcoming(w).on, ObjectOf(w))
           ELSE NoWriter(Upcoming(w).on)
        /\ held' = [held EXCEPT ![w] = @ \cup
                        {[on |-> Upcoming(w).on, obj |-> ObjectOf(w),
                          mode |-> IF Upcoming(w).k = "lock" THEN "w" ELSE "r"]}]
        /\ pc' = [pc EXCEPT ![w].at = @ + 1]
        /\ UNCHANGED <<db, nextUUID, cache, pending, crashed, networks, veths, linkUp,
                       store, ret, events>>

\* Unlock and RUnlock, of the mutex of the object the instruction is about: a lock
\* the worker holds on another object stays held. A lookup under the lock that found
\* no network ends the call.
Release ==
    \E w \in Workers :
        /\ ~crashed /\ About(w, {"unlock", "runlock"})
        /\ HoldsOf(w, Upcoming(w).on, ObjectOf(w))
        /\ held' = [held EXCEPT ![w] =
                        {h \in @ : ~(h.on = Upcoming(w).on /\ h.obj = ObjectOf(w))}]
        /\ pc' = [pc EXCEPT ![w].at = IF pc[w].miss THEN Len(CodeOf(pc[w].call)) + 1
                                       ELSE @ + 1]
        /\ UNCHANGED <<db, nextUUID, cache, pending, crashed, networks, veths, linkUp,
                       store, ret, events>>

\* whether the access worker w is about to make comes at the same time as an access
\* of another worker to the same map, one of the two a write
Racing(w) ==
    \E v \in Workers \ {w} :
        /\ About(v, {"read", "write"})
        /\ Upcoming(v).on = Upcoming(w).on /\ ObjectOf(v) = ObjectOf(w)
        /\ "write" \in {Upcoming(v).k, Upcoming(w).k}
        /\ ~(Holds(v, driverLock) /\ Holds(w, driverLock))

\* where the call of worker w is after its access, and what the registry view is
AfterAccess(w) ==
    LET p == pc[w]
        ins == Upcoming(w)
        on == [p EXCEPT !.at = @ + 1]
        end == [p EXCEPT !.at = Len(CodeOf(p.call)) + 1]
    IN  IF ins = Rd("networks")
        THEN [nets |-> networks,
              pc |-> IF InRegistry # {} THEN [on EXCEPT !.obj = CHOOSE o \in InRegistry : TRUE]
                     ELSE IF Holds(w, driverLock) THEN [on EXCEPT !.miss = TRUE]
                     ELSE end]
        ELSE IF ins = Wr("networks")
        THEN [nets |-> IF p.call \in {"DeleteNetwork", "FreeNetwork"} THEN Unregistered
                       ELSE With(Unregistered, NewObject,
                                 [reg |-> TRUE, hasMap |-> p.call = "CreateNetwork",
                                  has |-> FALSE]),
              pc |-> on]
        ELSE IF ins = Rd("endpoints")
        THEN [nets |-> networks,
              pc |-> IF p.call = "DeleteNetwork"
                     THEN IF p.at < 5 /\ ~networks[p.obj].has
                          THEN [p EXCEPT !.at = Len(CodeOf(p.call)) - 2]
                          ELSE on
                     ELSE IF networks[p.obj].has THEN on ELSE end]
        ELSE IF ins = Wr("endpoints")
        THEN IF p.call = "CreateEndpoint" /\ ~networks[p.obj].hasMap
             THEN [nets |-> networks, pc |-> Idle]
             ELSE [nets |-> [networks EXCEPT ![p.obj].has = (p.call = "CreateEndpoint")],
                   pc |-> on]
        ELSE [nets |-> networks, pc |-> on]

\* a read or a write of a map. An access that comes at the same time as a write of
\* another goroutine is a data race: the runtime may end the process with a fatal
\* error. The assignment to an entry of a nil map panics: the call ends there, with
\* the lock of the network held.
Access ==
    \E w \in Workers, fatal \in BOOLEAN :
        /\ ~crashed /\ About(w, {"read", "write"})
        /\ fatal => Racing(w)
        /\ IF fatal
           THEN /\ crashed' = TRUE
                /\ UNCHANGED <<pc, networks, held>>
           ELSE \E a \in {AfterAccess(w)} :
                  \E pcs \in {[pc EXCEPT ![w] = a.pc]} :
                    /\ pc' = pcs
                    /\ networks' = Collect(a.nets, pcs)
                    /\ held' = Kept(a.nets, pcs)
                    /\ crashed' = crashed
        /\ UNCHANGED <<db, nextUUID, cache, pending, veths, linkUp, store, ret, events>>

\* doOperations: the transaction, for which the database may send a notification
SendTx ==
    \E w \in Workers, committed \in BOOLEAN :
        /\ CanTransact /\ About(w, {"tx"})
        /\ pending' = IF committed THEN Append(pending, SomeUpdate) ELSE pending
        /\ pc' = [pc EXCEPT ![w].at = @ + 1]
        /\ UNCHANGED <<db, nextUUID, cache, crashed, networks, veths, linkUp,
                       store, ret, events, held>>

Return ==
    \E w \in Workers :
        /\ ~crashed /\ AtEnd(w)
        /\ \E pcs \in {[pc EXCEPT ![w] = Idle]} :
             /\ pc' = pcs
             /\ networks' = Collect(networks, pcs)
             /\ held' = Kept(networks, pcs)
        /\ UNCHANGED <<db, nextUUID, cache, pending, crashed, veths, linkUp,
                       store, ret, events>>

NextLocks ==
    \/ BeginCall
    \/ Acquire
    \/ Release
    \/ Access
    \/ SendTx
    \/ Return
    \/ Update
    \/ Locked
    \/ Stolen
    \/ Echo
    \/ Disconnected

SpecLocks == InitFresh /\ [][NextLocks]_vars

-----------------------------------------------------------------------------
(* Claims about the port lifecycle and the transaction executor *)

\* the transactions of the last call
TxEvents == {i \in DOMAIN events : events[i].ev = "tx"}

\* C1 (as claimed): when AddPort(p) returned success and the next call, DelPort(p),
\* returns success too, the database holds no Interface row and no Port row named p
\* and every bridge lists only ports that are there and are not named p.
C1_AddThenDelLeavesNothing ==
    [][(/\ ret.op = "AddPort" /\ ret.err = Nil
        /\ ret'.op = "DelPort" /\ ret'.err = Nil /\ ret'.name = ret.name)
       => (/\ RowsNamed(db'[intfTable], ret.name) = {}
           /\ RowsNamed(db'[portTable], ret.name) = {}
           /\ \A b \in DOMAIN db'[bridgeTable] :
                 db'[bridgeTable][b].ports \subseteq
                     {u \in DOMAIN db'[portTable] : db'[portTable][u].name # ret.name})]_vars

\* C2 (as claimed): a DelPort that finds no cached Port row of that name returns an
\* error and sends no transaction.
C2_DelPortMissFails ==
    (ret.op = "DelPort" /\ ~CacheHit(cache, ret.name))
        => (ret.err # Nil /\ TxEvents = {})

\* C3 (as claimed): AddPort sends its three operations as one transaction, and when
\* it returns an error the database has applied none of them.
C3_AddPortAllOrNothing ==
    ret.op = "AddPort"
        => /\ Len(events) = 1 /\ TxEvents = {1} /\ Len(events[1].ops) = 3
           /\ (ret.err # Nil => ~events[1].applied)

\* C4 (as claimed): whenever doOperations returns success, the database has applied
\* the operation list.
C4_SuccessMeansApplied ==
    \A i \in TxEvents : events[i].err = Nil => events[i].applied

\* the first reply of a list that carries an error (0 when there is none)
FirstError(reply) ==
    IF \E i \in DOMAIN reply : reply[i].error # ""
    THEN CHOOSE i \in DOMAIN reply :
            /\ reply[i].error # ""
            /\ \A j \in 1..(i - 1) : reply[j].error = ""
    ELSE 0

\* C5: doOperations returns the message and detail of the first reply that carries an
\* error, wherever it stands and however many replies there are, and returns success
\* only when no reply carries an error.
C5_FirstErrorReturned ==
    ret.op = "doOperations"
        => IF FirstError(ret.reply) = 0
           THEN ret.err = Nil
           ELSE /\ ret.err # Nil
                /\ ret.err = Err(ret.reply[FirstError(ret.reply)].error,
                                 ret.reply[FirstError(ret.reply)].details)

\* C5 witness: the only error stands in the reply after those of the three operations
C5_Witness ==
    /\ ret.op = "doOperations"
    /\ ret.nops = 3
    /\ Len(ret.reply) = 4
    /\ FirstError(ret.reply) = 4
    /\ ret.err = Err("e2", "d2")

-----------------------------------------------------------------------------
(* Claims about the registry of networks and endpoints *)

\* the workers whose call the step answers after steps of its own
Answering == {k \in Workers : pc[k] # Idle /\ pc'[k] = Idle}
\* whether the step is one in which a handler returns: one that ends the call of a
\* worker, or one in which no worker moves on, the call begun and answered at once
Answered ==
    \/ Answering # {}
    \/ \A k \in Workers :
          \/ pc[k] = Idle /\ pc'[k] = Idle
          \/ pc[k] # Idle /\ pc'[k] # Idle /\ pc'[k].call = pc[k].call /\ pc'[k].at = pc[k].at
\* the registry, the database, the veth pairs and the store before the call that the
\* step answers
Was == IF Answering # {} THEN pc[CHOOSE k \in Answering : TRUE].was ELSE Snap
\* the endpoint map of the network nid in the registry nets
EndpointsIn(nets, nid) == IF nid \in DOMAIN nets THEN nets[nid].endpoints ELSE NoEndpoints

\* the events of a call that are applied transactions of DelPort on a port
RemovalsIn(evs, name) ==
    {i \in DOMAIN evs :
        evs[i].ev = "tx" /\ evs[i].call = "DelPort" /\ evs[i].name = name /\ evs[i].applied}
Removals(name) == RemovalsIn(events, name)

\* C6 (as claimed): after Leave or DeleteEndpoint returned success for an endpoint with
\* an interface name, a transaction of DelPort has removed its port, its veth pair is
\* gone, it is no longer in the endpoint map of its network, and the deletion of its
\* record has been attempted.
C6_LeaveTearsDown ==
    (ret.op \in {"Leave", "DeleteEndpoint"} /\ ret.err = Nil)
        => \A ep \in ret.arg.ep :
              ep.intfName # <<>>
                => /\ Removals(getOvsPortName(ep.intfName)) # {}
                   /\ RowsNamed(db[portTable], getOvsPortName(ep.intfName)) = {}
                   /\ ep.intfName \notin veths
                   /\ ep.id \notin DOMAIN EndpointsIn(networks, ep.nid)
                   /\ \E i \in DOMAIN events :
                         events[i].ev = "store_delete" /\ events[i].eid = ep.id

\* C7 (as claimed): a successful DeleteNetwork of a registered network has removed the
\* port of each of its endpoints by a transaction before it removed the network entry;
\* afterwards none of these ports is in the database and the id is not registered.
C7_DeleteNetworkRemovesPorts ==
    (ret.op = "DeleteNetwork" /\ ret.err = Nil /\ ret.arg.known)
        => /\ ret.arg.nid \notin DOMAIN networks
           /\ \A e \in DOMAIN ret.arg.eps :
                 /\ RowsNamed(db[portTable], getOvsPortName(ret.arg.eps[e].intfName)) = {}
                 /\ \E i \in Removals(getOvsPortName(ret.arg.eps[e].intfName)) :
                       \E j \in DOMAIN events : events[j].ev = "net_remove" /\ i < j

\* whether a call touched the veth pair or the port of the endpoint
Touched(evs, ep) ==
    \E i \in DOMAIN evs :
        \/ evs[i].ev = "veth_delete" /\ evs[i].name = ep.intfName
        \/ evs[i].ev = "tx" /\ evs[i].name = getOvsPortName(ep.intfName)

\* C8 (as claimed): when DeleteNetwork fails on the teardown of an endpoint, the network
\* is still registered, every endpoint it did not reach is still in the endpoint map
\* with its port as it was, and no endpoint whose port it removed is still in the map.
C8_FailedDeleteNetworkKeepsRest ==
    [][(Answered /\ ret'.op = "DeleteNetwork" /\ ret'.err # Nil /\ ret'.arg.known)
       => /\ ret'.arg.nid \in DOMAIN networks'
          /\ \A e \in DOMAIN ret'.arg.eps :
                LET ep == ret'.arg.eps[e]
                    name == getOvsPortName(ep.intfName)
                IN  /\ ~Touched(events', ep)
                        => /\ e \in DOMAIN networks'[ret'.arg.nid].endpoints
                           /\ RowsNamed(db'[portTable], name) = RowsNamed(Was.db[portTable], name)
                    /\ RemovalsIn(events', name) # {}
                        => e \notin DOMAIN networks'[ret'.arg.nid].endpoints]_vars

\* C9 (as claimed): whenever a network entry is removed from the registry, by
\* DeleteNetwork or by FreeNetwork, its endpoint map is empty.
C9_RemovedNetworkIsEmpty ==
    \A i \in DOMAIN events : events[i].ev = "net_remove" => events[i].eps = {}

\* whether the address a/m lies in none of the subnets: no subnet has the mask length
\* m and a pool that contains a
InNoSubnet(subnets, s) ==
    ~\E i \in DOMAIN subnets :
        subnets[i].subnetIP.mask = s.len /\ Contains(subnets[i].subnetIP, s.ip)

\* whether the call whose events are evs could not generate an interface name
NoNameIn(evs) == \E i \in DOMAIN evs : evs[i].ev = "iface_name" /\ ~evs[i].ok

\* whether the step answers a CreateEndpoint for a registered network, with ids and an
\* interface whose address parses but lies in none of the subnets of the network
OutsideSubnets ==
    /\ Answered /\ ret'.op = "CreateEndpoint"
    /\ ret'.arg.nid \in DOMAIN Was.networks /\ ret'.arg.eid # "" /\ ~ret'.arg.intf.nil
    /\ ParseCIDR(ret'.arg.intf.address) # NilNet
    /\ InNoSubnet(Was.networks[ret'.arg.nid].subnets, ret'.arg.intf.address)
\* whether the call the step answers has left the registry, the veth pairs, the
\* database and the store as they were before it
NothingChanged ==
    /\ networks' = Was.networks /\ veths' = Was.veths
    /\ db' = Was.db /\ store' = Was.store

\* C10 (amended): a CreateEndpoint for a registered network, with ids and an interface
\* whose address parses but lies in none of the subnets of the network, fails and
\* changes nothing: the endpoint maps, the veth pairs, the database and the store are
\* as before, and no transaction was sent. The error is "no matching subnet" when
\* the interface name could be generated; when it could not, the call has failed on
\* that before it looked at the subnets.
C10_NoMatchingSubnetNamed ==
    [][OutsideSubnets
       => /\ IF NoNameIn(events')
             THEN ret'.err = Err("ovs generate interface name err", "") /\ Len(events') = 1
             ELSE ret'.err = Err("no matching subnet", "") /\ events' = <<>>
          /\ NothingChanged]_vars

\* C10 (as claimed): a CreateEndpoint for a registered network, with ids and an
\* interface whose address parses but lies in none of the subnets of the network,
\* fails with "no matching subnet" and changes nothing: the endpoint maps, the veth
\* pairs, the database and the store are as before, and no transaction was sent.
C10_NoMatchingSubnet ==
    [][OutsideSubnets
       => /\ ret'.err = Err("no matching subnet", "")
          /\ events' = <<>>
          /\ NothingChanged]_vars

\* C10 witness: the address 10/2 is refused by a network of two subnets, one of which
\* contains it under another mask length
C10_Witness ==
    /\ ret.op = "CreateEndpoint"
    /\ ret.err = Err("no matching subnet", "")
    /\ ret.arg.intf.address = CIDR(10, 2)
    /\ ret.arg.nid \in DOMAIN networks
    /\ Len(networks[ret.arg.nid].subnets) = 2
    /\ Contains(networks[ret.arg.nid].subnets[2].subnetIP, 10)
    /\ ret.arg.eid \notin DOMAIN networks[ret.arg.nid].endpoints
    /\ events = <<>>

-----------------------------------------------------------------------------
(* Claims about rejected and failing calls *)

\* whether the request of the call that the step answers is one that validation
\* rejects: a network id empty or unknown, an endpoint id empty or (for the calls on an
\* existing endpoint) unknown, no interface in a CreateEndpoint
RejectedRequest ==
    /\ Answered
    /\ ret'.op \in {"CreateEndpoint", "DeleteEndpoint", "Join", "Leave"}
    /\ \/ ret'.arg.nid = "" \/ ret'.arg.eid = ""
       \/ ret'.arg.nid \notin DOMAIN Was.networks
       \/ ret'.op = "CreateEndpoint" /\ ret'.arg.intf.nil
       \/ /\ ret'.op # "CreateEndpoint"
          /\ ret'.arg.eid \notin DOMAIN EndpointsIn(Was.networks, ret'.arg.nid)

\* C11: a CreateEndpoint, DeleteEndpoint, Join or Leave that validation rejects returns
\* an error and leaves the registry with every endpoint map, the database, the veth
\* pairs and the store as they were, and sends no transaction.
C11_RejectedCallChangesNothing ==
    [][RejectedRequest
       => /\ ret'.err # Nil
          /\ NothingChanged
          /\ events' = <<>>]_vars

\* C11 witness: Leave is refused for an endpoint id that the registered network does
\* not hold, while another endpoint is registered in it
C11_Witness ==
    /\ ret.op = "Leave" /\ ret.err # Nil
    /\ ret.arg.nid \in DOMAIN networks
    /\ ret.arg.eid # "" /\ ret.arg.eid \notin DOMAIN networks[ret.arg.nid].endpoints
    /\ DOMAIN networks[ret.arg.nid].endpoints # {}

\* whether the database refused the transaction of the event e: the reply carries an
\* error and nothing was applied
Refused(e) ==
    /\ e.ev = "tx" /\ ~e.applied
    /\ \E i \in DOMAIN e.reply : e.reply[i] # OkReply
RefusedIn(evs) == {i \in DOMAIN evs : Refused(evs[i])}

\* C12: when the database refuses a transaction that CreateEndpoint, Leave,
\* DeleteEndpoint or DeleteNetwork sent, the call returns an error and the registry,
\* with the endpoint map of every network, is as it was before the call.
C12_RefusedTransactionKeepsRegistry ==
    [][(/\ Answered
        /\ ret'.op \in {"CreateEndpoint", "Leave", "DeleteEndpoint", "DeleteNetwork"}
        /\ RefusedIn(events') # {})
       => ret'.err # Nil /\ networks' = Was.networks]_vars

\* C12 witness: the database refused the transaction of a CreateEndpoint whose veth
\* pair was created; the call failed and the endpoint is not registered
C12_Witness ==
    /\ ret.op = "CreateEndpoint" /\ ret.err # Nil
    /\ RefusedIn(events) # {}
    /\ \E i \in DOMAIN events : events[i].ev = "veth_create"
    /\ ret.arg.eid \notin DOMAIN networks[ret.arg.nid].endpoints

\* whether a write to the store failed among the events evs
WriteFailed(evs) == \E i \in DOMAIN evs : evs[i].ev = "store_put" /\ ~evs[i].ok
\* whether the bridge of database d holds a port named p
OnBridge(d, p) ==
    \E u \in RowsNamed(d[portTable], p) : u \in d[bridgeTable][BridgeUUID].ports

\* C13: a CreateEndpoint whose write to the store fails after its port was created
\* returns an error and leaves the port on the bridge; a CreateEndpoint that returns
\* success leaves the record of its endpoint in the store.
C13_FailedWriteKeepsPort ==
    [][(Answered /\ ret'.op = "CreateEndpoint")
       => /\ (WriteFailed(events') /\ CreatedPorts(events') # {})
                => /\ ret'.err # Nil
                   /\ \A p \in CreatedPorts(events') : OnBridge(db', p)
          /\ ret'.err = Nil
                => /\ ret'.arg.eid \in DOMAIN store'
                   /\ store'[ret'.arg.eid].value.id = ret'.arg.eid
                   /\ store'[ret'.arg.eid].value.nid = ret'.arg.nid
                   /\ \E i \in DOMAIN events' :
                         events'[i].ev = "store_put" /\ events'[i].ok]_vars

\* C13 witness: a CreateEndpoint failed at the write of the record; the port its
\* transaction created is on the bridge and the store holds no record of the endpoint
C13_Witness ==
    /\ ret.op = "CreateEndpoint" /\ ret.err # Nil
    /\ WriteFailed(events) /\ CreatedPorts(events) # {}
    /\ \A p \in CreatedPorts(events) : OnBridge(db, p)
    /\ ret.arg.eid \notin DOMAIN store

\* whether the deletion of a record failed among the events evs
DeleteFailed(evs) == \E i \in DOMAIN evs : evs[i].ev = "store_delete" /\ ~evs[i].ok

C15_EmptyInterfaceIsNoOp ==
    [][(/\ Answered
        /\ ret'.op \in {"Leave", "DeleteEndpoint"}
        /\ ret'.arg.ep # {}
        /\ \A ep \in ret'.arg.ep : ep.intfName = <<>>)
       => /\ ret'.err = Nil
          /\ events' = <<>>
          /\ NothingChanged]_vars

-----------------------------------------------------------------------------
(* Claims about the registry of networks *)

\* C16 (as claimed): a DeleteNetwork or FreeNetwork for an id that is not in the
\* registry returns an error and leaves the registry as it was.
C16_UnknownNetworkIsAnError ==
    [][(/\ Answered
        /\ ret'.op \in {"DeleteNetwork", "FreeNetwork"}
        /\ ret'.arg.nid \notin DOMAIN Was.networks)
       => ret'.err # Nil /\ networks' = Was.networks]_vars

\* whether the subnets are those of the pool/gateway pairs of the list ipv4, in order
SubnetsFollow(subnets, ipv4) ==
    /\ Len(subnets) = Len(ipv4)
    /\ \A i \in DOMAIN ipv4 :
          /\ subnets[i].subnetIP = ParseCIDR(ipv4[i].pool)
          /\ subnets[i].gwIP = ParseCIDR(ipv4[i].gateway)

\* C17 (as claimed): a CreateNetwork or AllocateNetwork with an empty id or an empty
\* list of pools (nil or of length zero) returns an error and leaves the registry as
\* it was; any other leaves the id registered with one subnet per pool/gateway pair,
\* in the order of the list.
C17_NetworkRequestChecked ==
    [][(Answered /\ ret'.op \in {"CreateNetwork", "AllocateNetwork"})
       => IF ret'.arg.nid = "" \/ ret'.arg.data.nil \/ Len(ret'.arg.data.items) = 0
          THEN ret'.err # Nil /\ networks' = Was.networks
          ELSE /\ ret'.arg.nid \in DOMAIN networks'
               /\ SubnetsFollow(networks'[ret'.arg.nid].subnets, ret'.arg.data.items)]_vars

\* C18: a Join returns success only for a registered network and an endpoint of it
\* whose address lies in one of the subnets of the network; it then returns the
\* interface name of the endpoint, the destination prefix and the gateway of the
\* network. No Join changes the registry, an endpoint map, the database or the store,
\* or sends a transaction.
C18_JoinChecksAndReturns ==
    [][(Answered /\ ret'.op = "Join")
       => /\ networks' = Was.networks /\ db' = Was.db /\ store' = Was.store
          /\ TxEvents' = {}
          /\ ret'.err = Nil
                => /\ ret'.arg.nid \in DOMAIN Was.networks
                   /\ ret'.arg.eid \in DOMAIN Was.networks[ret'.arg.nid].endpoints
                   /\ LET n == Was.networks[ret'.arg.nid]
                           e == n.endpoints[ret'.arg.eid]
                       IN  /\ ~InNoSubnet(n.subnets, NetString(e.addr))
                           /\ ret'.res.SrcName = e.intfName
                           /\ ret'.res.DstPrefix = containerEthName
                           /\ ret'.res.Gateway = n.gateway]_vars

\* C18 witness: a Join succeeded for a registered endpoint and returned its interface
\* name and the gateway of its network
C18_Witness ==
    /\ ret.op = "Join" /\ ret.err = Nil
    /\ ret.arg.eid \in DOMAIN networks[ret.arg.nid].endpoints
    /\ ret.res.SrcName = networks[ret.arg.nid].endpoints[ret.arg.eid].intfName
    /\ ret.res.Gateway = networks[ret.arg.nid].gateway
    /\ getOvsPortName(ret.res.SrcName) \in linkUp

-----------------------------------------------------------------------------
(* Claims about the restore pass *)

\* the endpoints persisted in the store st, decoded
PersistedIn(st) == {Restored(st[e]) : e \in DOMAIN st}
\* whether the pass whose events are evs resolved no network and met no failure: no
\* network was registered, and every transaction sent was applied
OrphansOnly(evs) ==
    \A i \in DOMAIN evs :
        /\ evs[i].ev # "net_insert"
        /\ evs[i].ev = "tx" => evs[i].applied
\* the rows of the table tbl of database d that carry none of the names
RowsBut(d, tbl, names) ==
    {u \in DOMAIN d[tbl] : d[tbl][u].name \notin names}

\* C19: a restore pass that resolves the network of none of the N persisted endpoints
\* and in which nothing fails sends N DelPort transactions, leaves in the database
\* all rows but the Port and Interface rows of those N endpoints, with none of their
\* ports on the bridge, deletes their N records and registers no endpoint.
C19_OrphansAreRemoved ==
    [][(Answered /\ ret'.op = "Restore" /\ ret'.err = Nil /\ OrphansOnly(events'))
       => LET ports == {getOvsPortName(ep.intfName) : ep \in PersistedIn(store)}
          IN  /\ Cardinality(TxEvents') = Cardinality(DOMAIN store)
              /\ {events'[i].name : i \in TxEvents'} = ports
              /\ \A t \in {portTable, intfTable} :
                    /\ DOMAIN db'[t] = RowsBut(db, t, ports)
                    /\ \A u \in DOMAIN db'[t] : db'[t][u] = db[t][u]
              /\ db'[bridgeTable][BridgeUUID].ports = RowsBut(db, portTable, ports)
              /\ DOMAIN store' = {}
              /\ networks' = NoNetworks]_vars

\* C19 witness: a restore pass deleted two orphans, sending two transactions and
\* deleting two records, and left the port of another endpoint alone
C19_Witness ==
    /\ ret.op = "Restore" /\ ret.err = Nil /\ OrphansOnly(events)
    /\ Cardinality(DOMAIN ret.arg.persisted) = 2
    /\ Cardinality(TxEvents) = 2
    /\ Cardinality({i \in DOMAIN events : events[i].ev = "store_delete" /\ events[i].ok}) = 2
    /\ DOMAIN store = {} /\ networks = NoNetworks
    /\ db[bridgeTable][BridgeUUID].ports = {}

\* whether the endpoints a and b agree on the fields that are persisted
SameFields(a, b) ==
    /\ a.id = b.id /\ a.nid = b.nid /\ a.intfName = b.intfName
    /\ a.mac = b.mac /\ a.addr = b.addr

\* C20: after a restore pass, every persisted endpoint whose network is in the
\* registry is in the endpoint map of that network with the id, network id, interface
\* name, MAC and address of the endpoint that was persisted, and the pass sent no
\* transaction for its port; and the record a successful CreateEndpoint writes
\* decodes to the fields of the endpoint it registered.
C20_RestoreIsIdentity ==
    [][/\ (Answered /\ ret'.op = "Restore")
          => \A S \in PersistedSets :
                store = StoreOf(S)
                => \A p \in S :
                      p.nid \in DOMAIN networks'
                      => /\ p.id \in DOMAIN networks'[p.nid].endpoints
                         /\ SameFields(networks'[p.nid].endpoints[p.id], p)
                         /\ \A i \in TxEvents' :
                               events'[i].name # getOvsPortName(p.intfName)
       /\ (Answered /\ ret'.op = "CreateEndpoint" /\ ret'.err = Nil)
          => /\ ret'.arg.eid \in DOMAIN store'
             /\ SameFields(Restored(store'[ret'.arg.eid]),
                           networks'[ret'.arg.nid].endpoints[ret'.arg.eid])]_vars

\* C20 witness: a restore pass registered two persisted endpoints, one of them without
\* interface name and MAC, with the fields they were persisted with, and sent no
\* transaction
C20_Witness ==
    /\ ret.op = "Restore" /\ ret.err = Nil
    /\ ret.arg.persisted = StoreOf({PersistedA, PersistedC})
    /\ PersistedA.nid \in DOMAIN networks
    /\ SameFields(networks[PersistedA.nid].endpoints[PersistedA.id], PersistedA)
    /\ SameFields(networks[PersistedC.nid].endpoints[PersistedC.id], PersistedC)
    /\ TxEvents = {}

-----------------------------------------------------------------------------
(* Claims about the helpers: subnet lookup, MAC generation, rows, cache *)

\* the addresses of the pool n, as a range
PoolRange(n) == n.ip .. (n.ip + Pow2(AddrBits - n.mask) - 1)
\* the subnets of the list that have the mask length of ip and a pool that holds it
Matching(subnets, ip) ==
    {i \in DOMAIN subnets :
        subnets[i].subnetIP.mask = ip.mask /\ ip.ip \in PoolRange(subnets[i].subnetIP)}

\* C21: getSubnetforIP returns the first subnet of the list whose mask length is that
\* of the address and whose pool contains the address, and none when no subnet of the
\* list is such.
C21_FirstMatchingSubnet ==
    ret.op = "getSubnetforIP"
        => IF Matching(ret.subnets, ret.ip) = {}
           THEN ret.res = 0
           ELSE /\ ret.res \in Matching(ret.subnets, ret.ip)
                /\ \A i \in Matching(ret.subnets, ret.ip) : ret.res <= i

\* C21 witness: the first subnet contains the address under another mask length, the
\* second is the one returned
C21_Witness ==
    /\ ret.op = "getSubnetforIP"
    /\ Len(ret.subnets) >= 2
    /\ ret.subnets[1].subnetIP.mask # ret.ip.mask
    /\ ret.ip.ip \in PoolRange(ret.subnets[1].subnetIP)
    /\ ret.res = 2

\* C22: every MAC that GenerateRandomMAC or GenerateMACFromIP returns has six bytes,
\* a first byte whose two low-order bits are 10 and the second byte 0x42.
C22_GeneratedMACShape ==
    ret.op \in {"GenerateRandomMAC", "GenerateMACFromIP"}
        => \A i \in DOMAIN ret.macs :
              /\ Len(ret.macs[i]) = 6
              /\ ret.macs[i][1] % 4 = 2
              /\ ret.macs[i][2] = 66

\* C22 witness: a random MAC with a nonzero random part, of that shape
C22_Witness ==
    /\ ret.op = "GenerateRandomMAC"
    /\ ret.in[1] = <<255, 1, 0, 255>>
    /\ ret.macs[1] = <<2, 66, 255, 1, 0, 255>>

\* whether the address is an IPv4 address, and its four bytes whatever its form
IsV4(ip) == Len(ip) = 4 \/ (Len(ip) = 16 /\ ip # NotV4)
V4Bytes(ip) == SubSeq(ip, Len(ip) - 3, Len(ip))

\* C23: GenerateMACFromIP of an IPv4 address ends with the four bytes of the address,
\* and of two distinct IPv4 addresses it returns distinct MACs.
C23_MACFromIPInjective ==
    ret.op = "GenerateMACFromIP"
        => /\ \A i \in DOMAIN ret.in :
                 IsV4(ret.in[i]) => SubSeq(ret.macs[i], 3, 6) = V4Bytes(ret.in[i])
           /\ (/\ IsV4(ret.in[1]) /\ IsV4(ret.in[2])
               /\ V4Bytes(ret.in[1]) # V4Bytes(ret.in[2]))
                 => ret.macs[1] # ret.macs[2]

\* C23 witness: two addresses that differ in their last byte only, one in its 16-byte
\* form, get MACs that differ
C23_Witness ==
    /\ ret.op = "GenerateMACFromIP"
    /\ ret.in[1] = <<1, 0, 0, 1>> /\ ret.in[2] = Mapped(<<1, 0, 0, 255>>)
    /\ ret.macs[1] # ret.macs[2]
    /\ SubSeq(ret.macs[2], 3, 6) = <<1, 0, 0, 255>>

\* whether the row has the field f exactly when v is not zero, and then with value v
FieldWhenNonzero(row, f, v) ==
    IF v = 0 THEN f \notin DOMAIN row ELSE f \in DOMAIN row /\ row[f] = v
\* whether the Port row is a trunk port without tag for the tag zero, an access port
\* with that tag otherwise
VlanOf(row, tag) ==
    IF tag = 0 THEN row.vlan_mode = "trunk" /\ "tag" \notin DOMAIN row
    ELSE row.vlan_mode = "access" /\ "tag" \in DOMAIN row /\ row.tag = tag

\* C24: the Port row AddPort inserts is a trunk port without tag when the tag is 0 and
\* an access port with the tag otherwise; its Interface row has a policing rate only
\* when the bandwidth is not 0 and a policing burst only when the burst is not 0. The
\* rows of an applied transaction are in the database in that form.
C24_InsertedRows ==
    ret.op = "AddPort"
        => LET tx == events[1]
               intf == tx.ops[1].row
               port == tx.ops[2].row
           IN  /\ tx.ops[1].table = intfTable /\ tx.ops[2].table = portTable
               /\ intf.name = ret.name /\ port.name = ret.name
               /\ VlanOf(port, ret.params.tag)
               /\ FieldWhenNonzero(intf, "ingress_policing_rate", ret.params.bandwidth)
               /\ FieldWhenNonzero(intf, "ingress_policing_burst", ret.params.burst)
               /\ tx.applied
                     => /\ \E u \in RowsNamed(db[intfTable], ret.name) :
                              db[intfTable][u] = intf
                        /\ \E u \in RowsNamed(db[portTable], ret.name) :
                              /\ VlanOf(db[portTable][u], ret.params.tag)
                              /\ db[portTable][u].interfaces
                                     \in RowsNamed(db[intfTable], ret.name)

\* C24 witness: an applied AddPort with tag 0, a burst and no bandwidth left a trunk
\* port whose interface has a policing burst and no policing rate
C24_Witness ==
    /\ ret.op = "AddPort" /\ ret.err = Nil /\ events[1].applied
    /\ ret.params.tag = 0 /\ ret.params.burst # 0 /\ ret.params.bandwidth = 0
    /\ \E u \in RowsNamed(db[portTable], ret.name) :
          /\ db[portTable][u].vlan_mode = "trunk"
          /\ DOMAIN db[intfTable][db[portTable][u].interfaces]
                = {"name", "type", "ingress_policing_burst"}

\* whether the update u names the row id of table t
Named(u, t, id) == t \in DOMAIN u /\ id \in DOMAIN u[t]

\* C27: populateCache of a cache and an update gives a cache that holds, for every row
\* the update names, its new value when that is not empty and nothing when it is, and
\* for every other row what the cache held before, and no row besides; applying the
\* update a second time changes nothing.
C27_UpdateApplied ==
    ret.op = "populateCache"
        => /\ \A t \in DOMAIN ret.updates : \A id \in DOMAIN ret.updates[t] :
                 /\ t \in DOMAIN ret.once
                 /\ IF ret.updates[t][id].new # EmptyRow
                    THEN /\ id \in DOMAIN ret.once[t]
                         /\ ret.once[t][id] = ret.updates[t][id].new
                    ELSE id \notin DOMAIN ret.once[t]
           /\ \A t \in DOMAIN ret.cache : \A id \in DOMAIN ret.cache[t] :
                 ~Named(ret.updates, t, id)
                    => /\ t \in DOMAIN ret.once
                       /\ id \in DOMAIN ret.once[t]
                       /\ ret.once[t][id] = ret.cache[t][id]
           /\ \A t \in DOMAIN ret.once : \A id \in DOMAIN ret.once[t] :
                 Named(ret.updates, t, id) \/ Named(ret.cache, t, id)
           /\ ret.twice = ret.once

\* C27 witness: one update changed a cached row, deleted another and added a row of a
\* table the cache did not have
C27_Witness ==
    /\ ret.op = "populateCache"
    /\ DOMAIN ret.cache = {portTable} /\ DOMAIN ret.cache[portTable] = CacheIds
    /\ DOMAIN ret.updates = CacheTables
    /\ DOMAIN ret.updates[portTable] = CacheIds
    /\ ret.updates[portTable][UUIDOf(1)].new = EmptyRow
    /\ ret.updates[portTable][UUIDOf(2)].new # ret.cache[portTable][UUIDOf(2)]
    /\ DOMAIN ret.once[portTable] = {UUIDOf(2)}
    /\ ret.once[portTable][UUIDOf(2)] = ret.updates[portTable][UUIDOf(2)].new
    /\ DOMAIN ret.once[intfTable] # {}

-----------------------------------------------------------------------------
(* Claims about the order of effects, the change feed and the locks *)

\* whether a transaction for the port of the interface named name returned success
\* among the events of evs before the i-th
SucceededBefore(evs, i, name) ==
    \E j \in 1..(i - 1) :
        /\ evs[j].ev = "tx" /\ evs[j].err = Nil
        /\ evs[j].name = getOvsPortName(name)

\* C25 (as claimed): in a CreateEndpoint, Leave, DeleteEndpoint or DeleteNetwork, an
\* endpoint is inserted into or removed from an endpoint map only after the AddPort or
\* DelPort transaction of the call for its port returned success, and a network is
\* removed only after the DelPort transaction for the port of each of its endpoints
\* returned success.
C25_RegistryChangesFollowTransaction ==
    [][(/\ Answered
        /\ ret'.op \in {"CreateEndpoint", "Leave", "DeleteEndpoint", "DeleteNetwork"})
       => \A i \in DOMAIN events' :
             /\ events'[i].ev \in {"ep_insert", "ep_remove"}
                   => SucceededBefore(events', i, events'[i].name)
             /\ events'[i].ev = "net_remove"
                   => \A name \in events'[i].names : SucceededBefore(events', i, name)]_vars

\* the rows of table t in the cache c
CachedRows(c, t) == IF t \in DOMAIN c THEN c[t] ELSE NoRows

\* C26 (as claimed): the handler of the change feed applies the notification it is
\* called with to the cache and does not crash; once no notification is outstanding
\* the cached rows of every table are the rows of the database.
C26_CacheFollowsFeed ==
    [][(pending # <<>> /\ pending' = Tail(pending))
       => /\ ~crashed'
          /\ cache' = populateCache(cache, Head(pending))
          /\ pending' = <<>>
                => \A t \in Tables : CachedRows(cache', t) = db'[t]]_vars

\* the lock that is to guard the map m
LockOf(m) ==
    CASE m = "networks" -> driverLock
      [] m = "endpoints" -> networkLock
      [] OTHER -> ovsdbLock
\* whether two workers are about to access the same map, one of them writing
Race(m) ==
    \E v, w \in Workers :
        /\ v # w
        /\ About(v, {"write"}) /\ Upcoming(v).on = m
        /\ About(w, {"read", "write"}) /\ Upcoming(w).on = m
        /\ ObjectOf(v) = ObjectOf(w)

\* C28 (as claimed): a worker reads or writes the map of networks only while it holds
\* the lock of the driver and the endpoint map of a network only while it holds the
\* lock of that network, and no two workers are about to access one of these maps at
\* the same time with one of them writing.
C28_MapsAccessedUnderLock ==
    /\ \A w \in Workers :
          (About(w, {"read", "write"}) /\ Upcoming(w).on \in {"networks", "endpoints"})
              => \E h \in held[w] : h.on = LockOf(Upcoming(w).on) /\ h.obj = ObjectOf(w)
    /\ ~Race("networks") /\ ~Race("endpoints")

\* whether worker w waits for a lock that another worker holds
Waits(w) ==
    /\ About(w, {"lock", "rlock"})
    /\ IF Upcoming(w).k = "lock" THEN ~Free(Upcoming(w).on, ObjectOf(w))
       ELSE ~NoWriter(Upcoming(w).on)
\* whether the next step of worker w needs nothing from another worker
Unhindered(w) == About(w, {"read", "write", "unlock", "runlock"})

\* C29 (as claimed): no worker holds the lock of the switch cache together with the
\* lock of the driver or the lock of a network; a worker holds no lock when it sends a
\* transaction to the switch, when it returns and between calls; and a worker that
\* waits for a lock waits for a worker whose next step is not hindered, so that the
\* requests served at the same time as the change feed never wait for each other.
C29_LocksNeverNested ==
    \A w \in Workers :
        /\ ~(Holds(w, ovsdbLock) /\ (Holds(w, driverLock) \/ Holds(w, networkLock)))
        /\ (pc[w] = Idle \/ AtEnd(w) \/ About(w, {"tx"})) => held[w] = {}
        /\ Waits(w) =>
              \E v \in Workers \ {w} :
                  /\ \E h \in held[v] : h.on = Upcoming(w).on /\ h.obj = ObjectOf(w)
                  /\ Unhindered(v)

\* the names of the ports on the bridge of database d that the database created in
\* this run, which are the ports of CreateEndpoint
PortsOnSwitch(d) ==
    {d[portTable][u].name :
        u \in (d[bridgeTable][BridgeUUID].ports \cap DOMAIN d[portTable]) \ {PrePort}}
\* the names of the ports of the endpoints registered in the networks nets
PortsRegistered(nets) ==
    UNION {{getOvsPortName(nets[n].endpoints[e].intfName) :
                e \in {x \in DOMAIN nets[n].endpoints : nets[n].endpoints[x].intfName # <<>>}} :
           n \in DOMAIN nets}
NoOrphans(d, nets) == PortsOnSwitch(d) = PortsRegistered(nets)
\* the handlers the plugin exposes
Exposed ==
    {"CreateNetwork", "AllocateNetwork", "DeleteNetwork", "FreeNetwork",
     "CreateEndpoint", "DeleteEndpoint", "Join", "Leave"}

\* C30 (as claimed): when the ports of CreateEndpoint on the switch are the ports of
\* the registered endpoints, they still are after an exposed operation that returned
\* success; so that after any sequence of successful operations no port is on the
\* switch without a registered endpoint and no registered endpoint is without its port.
C30_NoOrphanPorts ==
    [][(/\ Answered /\ ret'.op \in Exposed /\ ret'.err = Nil
        /\ NoOrphans(Was.db, Was.networks))
       => NoOrphans(db', networks')]_vars

\* the ids of the endpoints registered in the networks nets
RegisteredIds(nets) == UNION {DOMAIN nets[n].endpoints : n \in DOMAIN nets}
\* whether the store st holds a record for exactly the registered endpoints, each
\* registered in one network only, the one its network id names
Mirrored(st, nets) ==
    /\ DOMAIN st = RegisteredIds(nets)
    /\ \A n \in DOMAIN nets : \A e \in DOMAIN nets[n].endpoints :
          /\ nets[n].endpoints[e].nid = n
          /\ \A m \in DOMAIN nets : e \in DOMAIN nets[m].endpoints => m = n

\* C31 (as claimed): when the store holds a record for exactly the registered
\* endpoints, each in the one network its network id names, it still does after an
\* exposed operation that returned success; so that after any sequence of successful
\* operations the store mirrors the registry.
C31_StoreMirrorsRegistry ==
    [][(/\ Answered /\ ret'.op \in Exposed /\ ret'.err = Nil
        /\ Mirrored(Was.store, Was.networks))
       => Mirrored(store', networks')]_vars

\* whether the call answered last is a CreateEndpoint during which a DeleteNetwork or
\* a FreeNetwork of its network returned, or a DeleteNetwork or FreeNetwork during
\* which a CreateEndpoint on its network returned
RacedWithRemoval ==
    /\ ret.op \in {"CreateEndpoint", "DeleteNetwork", "FreeNetwork"}
    /\ ret.met # {}
\* the ports the CreateEndpoint of the two calls created
RacePorts ==
    IF ret.op = "CreateEndpoint" THEN CreatedPorts(events)
    ELSE UNION {r.ports : r \in ret.met}
\* the endpoints that are in the endpoint map of a network object the registry has
\* no more: the object the call held, or the one it removed
Unreachable ==
    ret.lost \cup UNION {events[i].eps : i \in {j \in DOMAIN events : events[j].ev = "net_remove"}}

\* C32 (as claimed): when a CreateEndpoint(n, e) and a DeleteNetwork(n) or
\* FreeNetwork(n) that ran at the same time have both returned, the port of e is not
\* on the switch with n absent from the registry, and e is not registered in a network
\* object that is no longer in the registry.
C32_CreateEndpointRacesRemoval ==
    [][(Answered /\ RacedWithRemoval')
       => /\ ~(/\ \E p \in RacePorts' : OnBridge(db', p)
               /\ ret'.arg.nid \notin DOMAIN networks')
          /\ Unreachable' = {}]_vars

\* whether AddPort returned success in the call that left the events evs
AddPortSucceeded(evs) ==
    \E i \in DOMAIN evs : evs[i].ev = "tx" /\ evs[i].call = "AddPort" /\ evs[i].err = Nil

\* C33 (as claimed): the network that a successful CreateNetwork or AllocateNetwork
\* stores has an initialized endpoint map, and a CreateEndpoint whose AddPort returned
\* success ends without a panic, with the endpoint in the endpoint map of its network.
C33_StoredNetworkHasEndpointMap ==
    [][/\ (Answered /\ ret'.op \in {"CreateNetwork", "AllocateNetwork"} /\ ret'.err = Nil)
            => networks'[ret'.arg.nid].hasMap
       /\ (Answered /\ ret'.op = "CreateEndpoint" /\ AddPortSucceeded(events'))
            => /\ ret'.err = Nil \/ ret'.err.error # "panic"
               /\ ret'.arg.eid \in DOMAIN EndpointsIn(networks', ret'.arg.nid)]_vars

=============================================================================
